---- MODULE Spec2Model ----
(***************************************************************************)
(* Model of the enrichment pipeline of stk-details: the orchestrator       *)
(* fetchSctrForTickers (src/shared/apiHandlers.js), the peer statistics    *)
(* (calculateIndustrySectorStats, calculateRelativeStrength), the base     *)
(* feed (fetchSctrJson) and the two transports (HTTP route, IPC handler).  *)
(*                                                                         *)
(* JavaScript values are represented as follows:                           *)
(*   - strings are TLA+ strings, manipulated character by character;       *)
(*   - a nullable number is <<>> (null) or <<v>> (the number v);           *)
(*   - a quotient of two integers is kept exact, as a reduced fraction.    *)
(***************************************************************************)
EXTENDS Integers, Sequences, FiniteSets, TLC

----------------------------------------------------------------------------
(* Bounds of the model *)

\* Longest ticker list of one request.
MaxTickers == 3

\* Largest number of records in the base dataset.
MaxRecords == 3

----------------------------------------------------------------------------
(* JavaScript values *)

Null == <<>>

Num(v) == <<v>>

\* typeof x === "number"
IsNumber(x) == x # Null

Val(x) == x[1]

Range(s) == {s[i] : i \in 1..Len(s)}

RECURSIVE GCD(_, _)
GCD(a, b) == IF b = 0 THEN a ELSE GCD(b, a % b)

Abs(n) == IF n < 0 THEN -n ELSE n

\* The exact value of n / d (d > 0), reduced.
Frac(n, d) ==
    LET g == GCD(Abs(n), d)
    IN  [num |-> n \div g, den |-> d \div g]

\* a > 0 for a fraction
FracPositive(a) == a.num > 0

----------------------------------------------------------------------------
(* Strings *)

LowerCaseLetters == "abcdefghijklmnopqrstuvwxyz"

UpperCaseLetters == "ABCDEFGHIJKLMNOPQRSTUVWXYZ"

CharAt(s, i) == SubSeq(s, i, i)

IsWhiteSpace(c) == c \in {" ", "\t", "\n", "\r"}

\* Index of character c in the string s, 0 when absent.
IndexOfChar(s, c) ==
    LET hits == {i \in 1..Len(s) : CharAt(s, i) = c}
    IN  IF hits = {} THEN 0 ELSE CHOOSE i \in hits : \A j \in hits : i <= j

\* The string without its leading white space.
RECURSIVE TrimStart(_)
TrimStart(s) ==
    IF Len(s) > 0 /\ IsWhiteSpace(CharAt(s, 1))
    THEN TrimStart(SubSeq(s, 2, Len(s)))
    ELSE s

\* The string without its trailing white space.
RECURSIVE TrimEnd(_)
TrimEnd(s) ==
    IF Len(s) > 0 /\ IsWhiteSpace(CharAt(s, Len(s)))
    THEN TrimEnd(SubSeq(s, 1, Len(s) - 1))
    ELSE s

\* String.prototype.trim
Trim(s) == TrimEnd(TrimStart(s))

UpperChar(c) ==
    LET k == IndexOfChar(LowerCaseLetters, c)
    IN  IF k = 0 THEN c ELSE CharAt(UpperCaseLetters, k)

\* String.prototype.toUpperCase
RECURSIVE ToUpperCase(_)
ToUpperCase(s) ==
    IF Len(s) = 0 THEN ""
    ELSE UpperChar(CharAt(s, 1)) \o ToUpperCase(SubSeq(s, 2, Len(s)))

\* The order in which the characters a ticker symbol is made of are collated:
\* punctuation, digits, letters.
CollationOrder == "-.0123456789ABCDEFGHIJKLMNOPQRSTUVWXYZ"

CharRank(c) == IndexOfChar(CollationOrder, UpperChar(c))

\* String.prototype.localeCompare on strings of these characters, compared
\* letter by letter and, when the letters agree, lower case first:
\* negative, zero or positive.
RECURSIVE ComparePrimary(_, _)
ComparePrimary(a, b) ==
    IF Len(a) = 0 /\ Len(b) = 0 THEN 0
    ELSE IF Len(a) = 0 THEN -1
    ELSE IF Len(b) = 0 THEN 1
    ELSE LET ra == CharRank(CharAt(a, 1))
             rb == CharRank(CharAt(b, 1))
         IN  IF ra # rb THEN ra - rb
             ELSE ComparePrimary(SubSeq(a, 2, Len(a)), SubSeq(b, 2, Len(b)))

CaseRank(c) == IF IndexOfChar(LowerCaseLetters, c) # 0 THEN 0 ELSE 1

RECURSIVE CompareCase(_, _)
CompareCase(a, b) ==
    IF Len(a) = 0 \/ Len(b) = 0 THEN 0
    ELSE LET ca == CaseRank(CharAt(a, 1))
             cb == CaseRank(CharAt(b, 1))
         IN  IF ca # cb THEN ca - cb
             ELSE CompareCase(SubSeq(a, 2, Len(a)), SubSeq(b, 2, Len(b)))

localeCompare(a, b) ==
    LET primary == ComparePrimary(a, b)
    IN  IF primary # 0 THEN primary ELSE CompareCase(a, b)

----------------------------------------------------------------------------
(* Peer statistics: calculateIndustrySectorStats, calculateRelativeStrength *)

\* The key of a record: its industry or its sector.
KeyOf(r, key) == IF key = "industry" THEN r.industry ELSE r.sector

\* The rank scores collected for one group: the numeric SCTR of the records
\* whose trimmed key (industry or sector) is the group's name, in dataset
\* order (the values array of the accumulation loop).
GroupValues(allRecords, key, name) ==
    LET RECURSIVE Collect(_)
        Collect(n) ==
            IF n = 0 THEN <<>>
            ELSE IF IsNumber(allRecords[n].SCTR) /\ Trim(KeyOf(allRecords[n], key)) = name
                 THEN Append(Collect(n - 1), Val(allRecords[n].SCTR))
                 ELSE Collect(n - 1)
    IN  Collect(Len(allRecords))

\* The names that get an accumulator: the non-empty trimmed keys of the
\* records with a numeric score.
GroupNames(allRecords, key) ==
    {Trim(KeyOf(allRecords[i], key)) :
        i \in {j \in 1..Len(allRecords) : IsNumber(allRecords[j].SCTR)}} \ {""}

RECURSIVE SumSeq(_)
SumSeq(s) == IF s = <<>> THEN 0 ELSE Head(s) + SumSeq(Tail(s))

CompareNumbers(a, b) == a - b

\* [...values].sort((a, b) => a - b): a stable sort, each value inserted
\* before the first value it precedes.
RECURSIVE InsertNumber(_, _)
InsertNumber(x, t) ==
    IF t = <<>> THEN <<x>>
    ELSE IF CompareNumbers(x, Head(t)) < 0 THEN <<x>> \o t
         ELSE <<Head(t)>> \o InsertNumber(x, Tail(t))

RECURSIVE SortNumbers(_)
SortNumbers(values) ==
    IF values = <<>> THEN <<>>
    ELSE InsertNumber(values[Len(values)],
                      SortNumbers(SubSeq(values, 1, Len(values) - 1)))

\* sorted[Math.floor(sorted.length / 2)], the array being indexed from 0.
MedianIndex(n) == (n \div 2) + 1

\* An entry that takes min and max from the values as they were collected.
GroupStatsUnsorted(values) ==
    LET count == Len(values)
    IN  [avg    |-> Frac(SumSeq(values), count),
         count  |-> count,
         min    |-> values[1],
         max    |-> values[count],
         median |-> values[MedianIndex(count)]]

\* One entry of the result: avg, count, min, max, median of a group's values.
GroupStats(values) ==
    LET sorted == SortNumbers(values)
        count  == Len(values)
    IN  [avg    |-> Frac(SumSeq(values), count),
         count  |-> count,
         min    |-> sorted[1],
         max    |-> sorted[Len(sorted)],
         median |-> sorted[MedianIndex(Len(sorted))]]

calculateIndustrySectorStats(allRecords) ==
    [industries |->
        [name \in GroupNames(allRecords, "industry") |->
            GroupStats(GroupValues(allRecords, "industry", name))],
     sectors |->
        [name \in GroupNames(allRecords, "sector") |->
            GroupStats(GroupValues(allRecords, "sector", name))]]

\* ((sctr - avg) / avg) * 100, exactly.
RelativeStrengthValue(sctr, avg) ==
    Frac((sctr * avg.den - avg.num) * 100, avg.num)

\* The guard under which a group yields a relative strength.
GroupYieldsRS(groupStats) ==
    FracPositive(groupStats.avg) /\ groupStats.count > 1

\* The relative strength against one group of stats (industries or sectors),
\* null when the name is empty, the group unknown or the guard fails.
RelativeStrengthIn(groups, name, sctr) ==
    IF name # "" /\ name \in DOMAIN groups /\ GroupYieldsRS(groups[name])
    THEN Num(RelativeStrengthValue(sctr, groups[name].avg))
    ELSE Null

\* The industry name looked up in the stats: the record's trimmed industry,
\* replaced by the label the remapping gives it when it has one.
StatsIndustry(record, finvizToStockChartsMap) ==
    LET industry == Trim(record.industry)
    IN  IF industry \in DOMAIN finvizToStockChartsMap
        THEN finvizToStockChartsMap[industry]
        ELSE industry

calculateRelativeStrength(record, stats, finvizToStockChartsMap) ==
    IF ~IsNumber(record.SCTR) THEN [industryRS |-> Null, sectorRS |-> Null]
    ELSE [industryRS |->
              RelativeStrengthIn(stats.industries,
                                 StatsIndustry(record, finvizToStockChartsMap),
                                 Val(record.SCTR)),
          sectorRS |->
              RelativeStrengthIn(stats.sectors, Trim(record.sector),
                                 Val(record.SCTR))]

\* The second copy of the function the repository carries: no remapping,
\* and a group yields a relative strength as soon as its average is positive.
LegacyRelativeStrengthIn(groups, name, sctr) ==
    IF name # "" /\ name \in DOMAIN groups /\ FracPositive(groups[name].avg)
    THEN Num(RelativeStrengthValue(sctr, groups[name].avg))
    ELSE Null

calculateRelativeStrengthLegacy(record, stats) ==
    IF ~IsNumber(record.SCTR) THEN [industryRS |-> Null, sectorRS |-> Null]
    ELSE [industryRS |->
              LegacyRelativeStrengthIn(stats.industries, Trim(record.industry),
                                       Val(record.SCTR)),
          sectorRS |->
              LegacyRelativeStrengthIn(stats.sectors, Trim(record.sector),
                                       Val(record.SCTR))]

----------------------------------------------------------------------------
(* The environment: the base feed, the providers, the trend computation *)

\* The symbols of the base feed, in feed order.
SymbolPool == <<"X", "Y", "A", "B">>

ScoreValues == {Null, Num(10), Num(30)}

Classifications ==
    {[industry |-> "", sector |-> ""],
     [industry |-> "Software", sector |-> "Technology"]}

Min(a, b) == IF a <= b THEN a ELSE b

\* A record of the base dataset, as normalizeRecords produces it.
RankRecord(symbol, sctr, class) ==
    [symbol |-> symbol, SCTR |-> sctr,
     industry |-> class.industry, sector |-> class.sector]

\* The scores and classifications a record of the base feed comes with: a
\* record without a score is classified or not, a record without a
\* classification has the higher score or none.
FeedValues ==
    {v \in ScoreValues \X Classifications :
        v[2].industry = "" => v[1] \in {Null, Num(30)}}

\* The base datasets of the model: the first n symbols of the pool, each
\* with any of the feed's scores and classifications.
Datasets ==
    UNION {
        {[i \in 1..n |-> RankRecord(SymbolPool[i], f[i][1], f[i][2])] :
            f \in [1..n -> FeedValues]} :
        n \in 0..Min(MaxRecords, Len(SymbolPool))}

\* The raw tickers a client sends, in the order it sends them.
RawTickerPool == <<" x ", "y", "A", "ZZZZZ", "">>

RECURSIVE PickFrom(_, _, _)
PickFrom(pool, chosen, n) ==
    IF n = 0 THEN <<>>
    ELSE IF n \in chosen THEN Append(PickFrom(pool, chosen, n - 1), pool[n])
         ELSE PickFrom(pool, chosen, n - 1)

\* The ticker lists of the model: the sub-lists of the pool of at most
\* MaxTickers tickers.
TickerLists ==
    {PickFrom(RawTickerPool, chosen, Len(RawTickerPool)) :
        chosen \in {c \in SUBSET (1..Len(RawTickerPool)) : Cardinality(c) <= MaxTickers}}

IndustrySources == {"finviz", "yahoo", "stockcharts"}

\* What the base feed answers to one GET.
FetchOutcomes ==
    {"ok", "httpError", "timeout", "networkError", "invalidJson", "notArray"}

Return(v) == [kind |-> "return", value |-> v]

Throw(m) == [kind |-> "throw", message |-> m]

\* What each provider knows: the classification its lookup yields for a
\* ticker when the lookup succeeds.
FinvizClassification ==
    [t \in {"X", "Y", "ZZZZZ"} |->
        CASE t = "X" -> [industry |-> "Semiconductors", sector |-> "Technology", source |-> "Finviz"]
          [] t = "Y" -> [industry |-> "Semiconductors", sector |-> "Technology", source |-> "Finviz"]
          [] t = "ZZZZZ" -> [industry |-> "Biotechnology", sector |-> "Healthcare", source |-> "Finviz"]]

YahooClassification ==
    [t \in {"X", "A"} |->
        CASE t = "X" -> [industry |-> "Semiconductor Equipment", sector |-> "Technology", source |-> "Yahoo"]
          [] t = "A" -> [industry |-> "", sector |-> "Financial Services", source |-> "Yahoo"]]

ProviderClassification(source) ==
    IF source = "finviz" THEN FinvizClassification ELSE YahooClassification

\* The results of one batch lookup: the batch throws, or it returns the
\* map (keyed by upper-case symbol) of the tickers whose lookup succeeded:
\* none of them, or all those the provider knows.
BatchResults(source, tickerList) ==
    {Throw("batch failed")} \cup
    {Return([t \in found |-> ProviderClassification(source)[t]]) :
        found \in {{}, Range(tickerList) \cap DOMAIN ProviderClassification(source)}}

\* The result of a trend computation that succeeds.
TrendData ==
    [currentIndex |-> 104, ma50 |-> 100, aboveMA |-> TRUE,
     percentAboveMA50 |-> 4, source |-> "ETF"]

\* How the trend computation of an industry (calculateIndustryMA50) settles
\* when it is run: with a result, with null, by throwing, or not within the
\* timeout.
TrendSettlement(industryName) ==
    CASE industryName = "Semiconductors" -> "data"
      [] industryName = "Software" -> "null"
      [] industryName = "Semiconductor Equipment" -> "timeout"
      [] OTHER -> "throw"

----------------------------------------------------------------------------
(* fetchSctrJson *)

\* The base dataset fetch: a non-2xx response, an abort, a network error
\* and an unparsable body throw; a body that is no array gives no records.
fetchSctrJson(outcome, dataset) ==
    CASE outcome = "ok" -> Return(dataset)
      [] outcome = "httpError" -> Throw("StockCharts HTTP 503")
      [] outcome = "timeout" -> Throw("This operation was aborted")
      [] outcome = "networkError" -> Throw("fetch failed")
      [] outcome = "invalidJson" -> Throw("Unexpected token < in JSON")
      [] outcome = "notArray" -> Return(<<>>)

----------------------------------------------------------------------------
(* fetchSctrForTickers, between its suspension points *)

\* tickers.map(t => String(t || "").trim().toUpperCase()).filter(Boolean)
NormalizeTickers(tickerList) ==
    LET RECURSIVE Go(_)
        Go(n) ==
            IF n = 0 THEN <<>>
            ELSE LET t == ToUpperCase(Trim(tickerList[n]))
                 IN  IF t = "" THEN Go(n - 1) ELSE Append(Go(n - 1), t)
    IN  Go(Len(tickerList))

SymbolKey(r) == ToUpperCase(r.symbol)

\* all.filter(r => wanted.has(symbol of r))
FilterWanted(allRecords, normalizedTickers) ==
    LET Wanted(r) == SymbolKey(r) \in Range(normalizedTickers)
    IN  SelectSeq(allRecords, Wanted)

\* normalized.filter(t => !foundSymbols.has(t))
MissingTickers(normalizedTickers, found) ==
    LET NotFound(t) == t \notin {SymbolKey(found[i]) : i \in 1..Len(found)}
    IN  SelectSeq(normalizedTickers, NotFound)

\* A provider entry is used when it carries an industry or a sector.
HasClassification(data) == data.industry # "" \/ data.sector # ""

\* The map industrySectorData: the usable entries of the batch result, and
\* nothing when the batch threw or no provider was selected.
IndustrySectorData(batch) ==
    IF batch.kind = "throw" THEN <<>>
    ELSE [t \in {u \in DOMAIN batch.value : HasClassification(batch.value[u])} |->
            batch.value[t]]

\* a || b on strings
OrElse(a, b) == IF a # "" THEN a ELSE b

\* One enriched record: the provider's industry and sector when the provider
\* has a usable entry for the symbol, the base record's otherwise.
EnrichRecord(record, industrySectorData) ==
    LET symbol == SymbolKey(record)
    IN  IF symbol \in DOMAIN industrySectorData
           /\ HasClassification(industrySectorData[symbol])
        THEN [symbol |-> record.symbol, SCTR |-> record.SCTR,
              industry |-> OrElse(industrySectorData[symbol].industry, record.industry),
              sector |-> OrElse(industrySectorData[symbol].sector, record.sector),
              industrySource |-> OrElse(industrySectorData[symbol].source, "Yahoo"),
              sectorSource |-> OrElse(industrySectorData[symbol].source, "Yahoo")]
        ELSE [symbol |-> record.symbol, SCTR |-> record.SCTR,
              industry |-> record.industry, sector |-> record.sector,
              industrySource |-> "StockCharts", sectorSource |-> "StockCharts"]

EnrichRecords(found, industrySectorData) ==
    [i \in 1..Len(found) |-> EnrichRecord(found[i], industrySectorData)]

\* The identifiers that have a binding where the callback of
\* missingTickers.map runs: the function's parameters and its top-level
\* declarations up to there. finvizData is declared inside the try block of
\* the finviz branch and has no binding here.
ScopeOfMissingWithFinviz ==
    {"tickers", "industrySource", "normalized", "all", "wanted", "records",
     "foundSymbols", "missingTickers", "industrySectorData", "enrichedRecords",
     "ticker"}

\* The identifiers that have a binding where the trend computation is
\* called: the above, and the declarations of the trend section.
ScopeOfMa50Call ==
    (ScopeOfMissingWithFinviz \ {"ticker"}) \cup
    {"missingWithFinviz", "finvizToStockChartsMap", "stats", "industryMA50",
     "industriesInResults", "industriesArray", "withTimeout", "industry",
     "industryRecords", "calculateIndustryMA50"}

\* Reading an identifier that has no binding throws a ReferenceError.
ReadsThrow(identifiers, scope) == \E id \in identifiers : id \notin scope

\* missingTickers.map(ticker => { const finviz = finvizData.get(ticker); ... }):
\* the callback runs once per missing ticker and reads finvizData.
MissingWithFinviz(missing) ==
    IF missing # <<>> /\ ReadsThrow({"finvizData", "ticker"}, ScopeOfMissingWithFinviz)
    THEN Throw("finvizData is not defined")
    ELSE Return([i \in 1..Len(missing) |-> [symbol |-> missing[i]]])

\* all.find(r => symbol of r === symbol): the first record with the symbol.
FindOriginal(allRecords, symbol) ==
    LET hits == {i \in 1..Len(allRecords) : SymbolKey(allRecords[i]) = symbol}
    IN  IF hits = {} THEN Null
        ELSE Num(allRecords[CHOOSE i \in hits : \A j \in hits : i <= j])

\* The remapping in which a later record overwrites the label of an earlier.
RECURSIVE FinvizToStockChartsMapOverwriting(_, _, _)
FinvizToStockChartsMapOverwriting(enriched, allRecords, n) ==
    IF n = 0 THEN <<>>
    ELSE LET before == FinvizToStockChartsMapOverwriting(enriched, allRecords, n - 1)
             finvizIndustry == Trim(enriched[n].industry)
             original == FindOriginal(allRecords, SymbolKey(enriched[n]))
         IN  IF original # Null /\ finvizIndustry # ""
                /\ Trim(Val(original).industry) # ""
                /\ finvizIndustry # Trim(Val(original).industry)
             THEN [l \in DOMAIN before \cup {finvizIndustry} |->
                      IF l = finvizIndustry THEN Trim(Val(original).industry)
                      ELSE before[l]]
             ELSE before

\* The remapping of alternate industry labels to base labels, built over the
\* first n enriched records: a label is set once, by the first record that
\* carries it and whose base industry is non-empty and different.
RECURSIVE FinvizToStockChartsMap(_, _, _)
FinvizToStockChartsMap(enriched, allRecords, n) ==
    IF n = 0 THEN <<>>
    ELSE LET before == FinvizToStockChartsMap(enriched, allRecords, n - 1)
             finvizIndustry == Trim(enriched[n].industry)
             original == FindOriginal(allRecords, SymbolKey(enriched[n]))
         IN  IF original # Null /\ finvizIndustry # ""
                /\ Trim(Val(original).industry) # ""
                /\ finvizIndustry # Trim(Val(original).industry)
                /\ finvizIndustry \notin DOMAIN before
             THEN [l \in DOMAIN before \cup {finvizIndustry} |->
                      IF l = finvizIndustry THEN Trim(Val(original).industry)
                      ELSE before[l]]
             ELSE before

\* industriesArray: the distinct non-empty trimmed industries of the first n
\* enriched records, in order of first appearance.
RECURSIVE IndustriesInResults(_, _)
IndustriesInResults(enriched, n) ==
    IF n = 0 THEN <<>>
    ELSE LET before == IndustriesInResults(enriched, n - 1)
             industry == Trim(enriched[n].industry)
         IN  IF industry # "" /\ industry \notin Range(before)
             THEN Append(before, industry)
             ELSE before

\* The value one element of ma50Promises is fulfilled with. The arguments
\* of the call are evaluated inside the try block, before the call; a throw
\* there, a throw of the computation and the expiry of the timeout all
\* reach the catch clause, which returns null.
Ma50Promise(industry, enriched) ==
    LET InIndustry(r) == Trim(r.industry) = industry
        industryRecords == SelectSeq(enriched, InIndustry)
    IN  IF industryRecords = <<>> THEN Null
        ELSE IF ReadsThrow({"calculateIndustryMA50", "industryRecords", "allEnriched"},
                           ScopeOfMa50Call)
             THEN Null
        ELSE IF TrendSettlement(industry) = "data"
             THEN Num([industry |-> industry, data |-> Num(TrendData)])
        ELSE IF TrendSettlement(industry) = "null"
             THEN Num([industry |-> industry, data |-> Null])
        ELSE Null

Ma50Promises(enriched) ==
    LET industriesArray == IndustriesInResults(enriched, Len(enriched))
    IN  [i \in 1..Len(industriesArray) |-> Ma50Promise(industriesArray[i], enriched)]

\* industryMA50: the data of the fulfilled promises that carry data, by
\* industry name.
IndustryMA50(settled) ==
    LET withData == {i \in 1..Len(settled) :
                        settled[i] # Null /\ Val(settled[i]).data # Null}
    IN  [name \in {Val(settled[i]).industry : i \in withData} |->
            Val(Val(settled[CHOOSE i \in withData : Val(settled[i]).industry = name]).data)]

\* One record of recordsWithRS.
RecordWithRS(record, stats, finvizToStockChartsMap, industryMA50) ==
    LET rs == calculateRelativeStrength(record, stats, finvizToStockChartsMap)
        industry == Trim(record.industry)
        known == industry \in DOMAIN industryMA50
    IN  [symbol |-> record.symbol, SCTR |-> record.SCTR,
         industry |-> record.industry, sector |-> record.sector,
         industrySource |-> record.industrySource,
         sectorSource |-> record.sectorSource,
         industryRS |-> rs.industryRS, sectorRS |-> rs.sectorRS,
         industryAboveMA50 |->
             IF known THEN Num(industryMA50[industry].aboveMA) ELSE Null,
         industryPercentAboveMA50 |->
             IF known THEN Num(industryMA50[industry].percentAboveMA50) ELSE Null]

\* The comparator with the subtraction turned round: lower SCTR first.
CompareRecordsAscending(a, b) ==
    IF (~IsNumber(a.SCTR) /\ ~IsNumber(b.SCTR))
       \/ (IsNumber(a.SCTR) /\ IsNumber(b.SCTR) /\ Val(a.SCTR) = Val(b.SCTR))
    THEN localeCompare(a.symbol, b.symbol)
    ELSE IF ~IsNumber(a.SCTR) THEN -1
    ELSE IF ~IsNumber(b.SCTR) THEN 1
    ELSE Val(a.SCTR) - Val(b.SCTR)

\* The comparator of the final sort: higher SCTR first, a record without a
\* numeric SCTR counting as -Infinity, equal keys by symbol.
CompareRecords(a, b) ==
    IF (~IsNumber(a.SCTR) /\ ~IsNumber(b.SCTR))
       \/ (IsNumber(a.SCTR) /\ IsNumber(b.SCTR) /\ Val(a.SCTR) = Val(b.SCTR))
    THEN localeCompare(a.symbol, b.symbol)
    ELSE IF ~IsNumber(a.SCTR) THEN 1
    ELSE IF ~IsNumber(b.SCTR) THEN -1
    ELSE Val(b.SCTR) - Val(a.SCTR)

\* recordsWithRS.sort(comparator): a stable sort, each record inserted
\* before the first record it precedes.
RECURSIVE InsertRecord(_, _)
InsertRecord(x, t) ==
    IF t = <<>> THEN <<x>>
    ELSE IF CompareRecords(x, Head(t)) < 0 THEN <<x>> \o t
         ELSE <<Head(t)>> \o InsertRecord(x, Tail(t))

RECURSIVE SortRecords(_)
SortRecords(recordList) ==
    IF recordList = <<>> THEN <<>>
    ELSE InsertRecord(recordList[Len(recordList)],
                      SortRecords(SubSeq(recordList, 1, Len(recordList) - 1)))

\* The statistics computed over the records of the request only.
StatsOfRequested(allRecords, found) == calculateIndustrySectorStats(found)

\* The statistics the orchestrator computes: over the whole fetched dataset.
StatsOf(allRecords, found) == calculateIndustrySectorStats(allRecords)

\* The value fetchSctrForTickers returns once the trend promises settled.
FinalResult(allRecords, found, enriched, missing, settled) ==
    LET stats == StatsOf(allRecords, found)
        map == FinvizToStockChartsMap(enriched, allRecords, Len(enriched))
        industryMA50 == IndustryMA50(settled)
        recordsWithRS ==
            [i \in 1..Len(enriched) |->
                RecordWithRS(enriched[i], stats, map, industryMA50)]
    IN  [records |-> SortRecords(recordsWithRS),
         stats |-> [industries |-> stats.industries, sectors |-> stats.sectors,
                    industryMA50 |-> industryMA50],
         missingTickers |-> missing]

\* The value returned for a request without any non-empty ticker.
EmptyResult ==
    [records |-> <<>>, stats |-> [industries |-> <<>>, sectors |-> <<>>],
     missingTickers |-> <<>>]

----------------------------------------------------------------------------
(* The request pipeline as a state machine *)

VARIABLES
    pc,               \* where the request in progress stands
    tickers,          \* the ticker list of the request
    industrySource,   \* the industry source of the request
    fetched,          \* how the base fetch of the request ended, and with what
    provided,         \* how the provider batch of the request ended
    normalized,       \* fetchSctrForTickers: normalized
    all,              \* fetchSctrForTickers: all
    records,          \* fetchSctrForTickers: records
    missingTickers,   \* fetchSctrForTickers: missingTickers
    enrichedRecords,  \* fetchSctrForTickers: enrichedRecords
    ma50Results,      \* fetchSctrForTickers: what the trend promises settled with
    outcome,          \* what fetchSctrForTickers returned or threw
    response,         \* what the transport answered
    sample,           \* the records given to calculateIndustrySectorStats
    peerStats,        \* what calculateIndustrySectorStats returned for them
    strengths         \* what calculateRelativeStrength returned, and for what

VARIABLES
    cacheKind,        \* which of the four caches of the process is looked at
    now,              \* Date.now(), in ticks of the model's clock
    cache,            \* the in-memory Map of the cache
    disk,             \* the content of the cache file
    others,           \* how many more entries the Map holds beside the keys followed
    written,          \* history: the value a set wrote for a key, and when
    flushed,          \* history: for each key of the file, the set it holds
    lookup,           \* the last lookup: its key, its result, whether it went to the network
    lastOp            \* the last operation on the cache

VARIABLES
    batches,          \* for each caller, the batch lookup it awaits
    inFlight          \* the network requests of the batch lookups in flight

VARIABLES
    cell,             \* the cell given to normalizeTickerCandidate
    tickerCandidate,  \* what normalizeTickerCandidate returned for it
    table,            \* the columns and rows given to detectTickerColumnIndex
    tickerColumnIndex, \* what detectTickerColumnIndex returned for them
    csvText,          \* the text given to parseCsvForTickers, line by line
    parsed            \* what parseCsvForTickers returned for it

VARIABLES
    raw,              \* the array the base feed answered with, given to normalizeRecords
    out               \* the records normalizeRecords returned for it

VARIABLES
    trendInput,       \* the industry records and the dataset given to calculateIndustryMA50
    market,           \* the instruments Yahoo has a price history of
    industryMA50Cache,\* the Map industryMA50Cache
    pricesCache,      \* the keys of the Map pricesCache
    calls,            \* the calls of calculateIndustryMA50, in the order they were made
    fetches           \* the calls that sent a request for prices to Yahoo

VARIABLES
    rankInput,        \* the base dataset and the provider's entries the records are enriched from
    ranked            \* the enriched records, the remapping built of them, and the records with their strengths

VARIABLES
    appState,         \* the state of AppContent: tickers, records, loading, error
    fetchRequests,    \* the requests of the page that are not answered yet
    submitted,        \* the number of ticker lists submitted to the page
    answeredBy        \* the submission whose answer the page shows, 0 when it shows none

\* The variables of a cache taken on its own.
cacheVars ==
    <<cacheKind, now, cache, disk, others, written, flushed, lookup, lastOp>>

\* The variables of the normalization of the base feed.
feedVars == <<raw, out>>

\* The variables of the trend computation of an industry.
trendVars == <<trendInput, market, industryMA50Cache, pricesCache, calls, fetches>>

\* The variables of the enrichment and ranking of given records.
rankVars == <<rankInput, ranked>>

\* The variables of the page AppContent.
appVars == <<appState, fetchRequests, submitted, answeredBy>>

vars ==
    <<pc, tickers, industrySource, fetched, provided, normalized, all,
      records, missingTickers, enrichedRecords, ma50Results, outcome, response,
      sample, peerStats, strengths, cacheVars, batches, inFlight,
      cell, tickerCandidate, table, tickerColumnIndex, csvText, parsed,
      feedVars,
      trendVars,
      rankVars,
      appVars>>

\* The variables of the peer statistics taken on their own.
statsVars == <<sample, peerStats, strengths>>

\* The variables of the request pipeline.
pipelineVars ==
    <<pc, tickers, industrySource, fetched, provided, normalized, all,
      records, missingTickers, enrichedRecords, ma50Results, outcome, response>>

\* The variables of the batch lookups, beside the cache they share.
batchVars == <<batches, inFlight>>

\* The variables of the ticker detection of an uploaded table.
csvVars == <<cell, tickerCandidate, table, tickerColumnIndex, csvText, parsed>>

\* What an operation of the pipeline leaves alone beside its own variables.
besidePipeline == <<statsVars, cacheVars, batchVars, csvVars, feedVars, trendVars, rankVars, appVars>>

\* What an operation on the peer statistics leaves alone.
besideStats == <<pipelineVars, cacheVars, batchVars, csvVars, feedVars, trendVars, rankVars, appVars>>

\* What an operation on a cache taken on its own leaves alone.
besideCache == <<pipelineVars, statsVars, batchVars, csvVars, feedVars, trendVars, rankVars, appVars>>

\* What a step of a batch lookup leaves alone beside the cache.
besideBatches == <<pipelineVars, statsVars, csvVars, feedVars, trendVars, rankVars, appVars>>

\* What the ticker detection leaves alone.
besideCsv == <<pipelineVars, statsVars, cacheVars, batchVars, feedVars, trendVars, rankVars, appVars>>

\* What the normalization of the base feed leaves alone.
besideFeed ==
    <<pipelineVars, statsVars, cacheVars, batchVars, csvVars, trendVars, rankVars, appVars>>

\* What a step of a trend computation leaves alone.
besideTrend ==
    <<pipelineVars, statsVars, cacheVars, batchVars, feedVars, csvVars, rankVars, appVars>>

\* What the enrichment and ranking of given records leaves alone.
besideRank ==
    <<pipelineVars, statsVars, cacheVars, batchVars, feedVars, trendVars, csvVars, appVars>>

\* What a step of the page leaves alone.
besideApp ==
    <<pipelineVars, statsVars, cacheVars, batchVars, feedVars, trendVars, rankVars, csvVars>>

locals == <<normalized, all, records, missingTickers, enrichedRecords, ma50Results>>

None == "none"

\* Nothing fetched, provided, settled or answered yet.
NotFetched == [outcome |-> None]

Pending == [kind |-> None]

NoResponse == [transport |-> None]

NoLocals ==
    /\ normalized' = <<>>
    /\ all' = <<>>
    /\ records' = <<>>
    /\ missingTickers' = <<>>
    /\ enrichedRecords' = <<>>
    /\ ma50Results' = <<>>

\* A Map without entries, a file without entries.
EmptyMap == [k \in {} |-> {}]

\* No lookup made yet.
NoLookup == [key |-> None]

\* No cache is looked at.
CacheOff ==
    /\ cacheKind = None
    /\ now = 0
    /\ cache = EmptyMap
    /\ disk = EmptyMap
    /\ others = 0
    /\ written = EmptyMap
    /\ flushed = EmptyMap
    /\ lookup = NoLookup
    /\ lastOp = None

\* No batch lookup runs.
BatchOff ==
    /\ batches = EmptyMap
    /\ inFlight = {}

\* No table is looked at.
CsvOff ==
    /\ cell = Pending
    /\ tickerCandidate = Pending
    /\ table = Pending
    /\ tickerColumnIndex = Pending
    /\ csvText = Pending
    /\ parsed = Pending

\* No feed is normalized.
FeedOff ==
    /\ raw = Pending
    /\ out = Pending

\* No trend is computed.
TrendOff ==
    /\ trendInput = Pending
    /\ market = Pending
    /\ industryMA50Cache = EmptyMap
    /\ pricesCache = {}
    /\ calls = <<>>
    /\ fetches = {}

\* No records are enriched and ranked.
RankOff ==
    /\ rankInput = Pending
    /\ ranked = Pending

\* No page is shown.
AppOff ==
    /\ appState = Pending
    /\ fetchRequests = {}
    /\ submitted = 0
    /\ answeredBy = 0

\* No statistics are computed.
StatsOff ==
    /\ sample = <<>>
    /\ peerStats = Pending
    /\ strengths = Pending

\* No request in progress.
Idle ==
    /\ pc = "idle"
    /\ tickers = <<>>
    /\ industrySource = None
    /\ fetched = NotFetched
    /\ provided = Pending
    /\ normalized = <<>>
    /\ all = <<>>
    /\ records = <<>>
    /\ missingTickers = <<>>
    /\ enrichedRecords = <<>>
    /\ ma50Results = <<>>
    /\ outcome = Pending
    /\ response = NoResponse

Init ==
    /\ AppOff
    /\ RankOff
    /\ TrendOff
    /\ FeedOff
    /\ Idle
    /\ StatsOff
    /\ CacheOff
    /\ BatchOff
    /\ CsvOff

\* fetchSctrForTickers is called: the tickers are normalized; without any
\* non-empty ticker it returns at once, otherwise it awaits the base fetch.
ReceiveRequest(tickerList, source) ==
    /\ pc = "idle"
    /\ tickers' = tickerList
    /\ industrySource' = source
    /\ IF NormalizeTickers(tickerList) = <<>>
       THEN /\ outcome' = Return(EmptyResult)
            /\ pc' = "settled"
            /\ UNCHANGED normalized
       ELSE /\ normalized' = NormalizeTickers(tickerList)
            /\ pc' = "fetchSctrJson"
            /\ UNCHANGED outcome
    /\ UNCHANGED <<fetched, provided, all, records, missingTickers,
                   enrichedRecords, ma50Results, response, besidePipeline>>

\* The code from the enriched records to the await of the trend promises:
\* the missing tickers are mapped (which may throw), then the trend promises
\* are created.
AfterIndustrySource(allRecords, found, missing, industrySectorData) ==
    LET enriched == EnrichRecords(found, industrySectorData)
    IN  IF MissingWithFinviz(missing).kind = "throw"
        THEN /\ outcome' = MissingWithFinviz(missing)
             /\ pc' = "settled"
             /\ NoLocals
        ELSE /\ all' = allRecords
             /\ records' = found
             /\ missingTickers' = missing
             /\ enrichedRecords' = enriched
             /\ ma50Results' = Ma50Promises(enriched)
             /\ pc' = "ma50"
             /\ UNCHANGED <<outcome, normalized>>

\* The base fetch settles. A failure leaves fetchSctrForTickers as its
\* failure. Otherwise the records are filtered and the missing tickers
\* found; the finviz and yahoo sources await their batch, any other source
\* runs on without a provider.
FetchSctrJsonSettles(fetchOutcome, dataset) ==
    /\ pc = "fetchSctrJson"
    /\ fetched' = [outcome |-> fetchOutcome, result |-> fetchSctrJson(fetchOutcome, dataset)]
    /\ LET result == fetchSctrJson(fetchOutcome, dataset)
       IN  IF result.kind = "throw"
           THEN /\ outcome' = result
                /\ pc' = "settled"
                /\ NoLocals
           ELSE LET found == FilterWanted(result.value, normalized)
                    missing == MissingTickers(normalized, found)
                IN  IF industrySource \in {"finviz", "yahoo"}
                    THEN /\ all' = result.value
                         /\ records' = found
                         /\ missingTickers' = missing
                         /\ pc' = "industrySource"
                         /\ UNCHANGED <<normalized, enrichedRecords,
                                        ma50Results, outcome>>
                    ELSE AfterIndustrySource(result.value, found, missing, <<>>)
    /\ UNCHANGED <<tickers, industrySource, provided, response, besidePipeline>>

\* The provider batch settles: its usable entries override the base
\* classification; a batch that threw overrides nothing.
IndustrySourceSettles(batch) ==
    /\ pc = "industrySource"
    /\ provided' = batch
    /\ AfterIndustrySource(all, records, missingTickers, IndustrySectorData(batch))
    /\ UNCHANGED <<tickers, industrySource, fetched, response, besidePipeline>>

\* The trend promises have settled: the relative strengths and the trend
\* fields are added, the records sorted and the result returned.
Ma50Settle ==
    /\ pc = "ma50"
    /\ outcome' = Return(FinalResult(all, records, enrichedRecords,
                                     missingTickers, ma50Results))
    /\ pc' = "settled"
    /\ NoLocals
    /\ UNCHANGED <<tickers, industrySource, fetched, provided, response, besidePipeline>>

\* A route that answers a failure with an empty result.
HttpResponseEmptyOnFailure(result) ==
    IF result.kind = "return"
    THEN [transport |-> "http", status |-> 200, body |-> result.value]
    ELSE [transport |-> "http", status |-> 200, body |-> EmptyResult]

\* The HTTP route POST /api/fetch-sctr: the result as JSON, a failure as
\* status 500 with its message.
HttpResponse(result) ==
    IF result.kind = "return"
    THEN [transport |-> "http", status |-> 200, body |-> result.value]
    ELSE [transport |-> "http", status |-> 500, body |-> result.message]

\* The IPC handler api:fetch-sctr: {success: true, data} or
\* {success: false, error}.
IpcResponse(result) ==
    IF result.kind = "return"
    THEN [transport |-> "ipc", success |-> TRUE, data |-> result.value]
    ELSE [transport |-> "ipc", success |-> FALSE, error |-> result.message]

HttpRespond ==
    /\ pc = "settled"
    /\ response' = HttpResponse(outcome)
    /\ pc' = "responded"
    /\ UNCHANGED <<tickers, industrySource, fetched, provided, locals, outcome,
                   besidePipeline>>

IpcRespond ==
    /\ pc = "settled"
    /\ response' = IpcResponse(outcome)
    /\ pc' = "responded"
    /\ UNCHANGED <<tickers, industrySource, fetched, provided, locals, outcome,
                   besidePipeline>>

\* The request is over; the process serves the next one.
NextRequest ==
    /\ pc = "responded"
    /\ pc' = "idle"
    /\ tickers' = <<>>
    /\ industrySource' = None
    /\ fetched' = NotFetched
    /\ provided' = Pending
    /\ outcome' = Pending
    /\ response' = NoResponse
    /\ UNCHANGED <<locals, besidePipeline>>

Next ==
    \/ /\ pc = "idle"
       /\ \E tickerList \in TickerLists, source \in IndustrySources :
             ReceiveRequest(tickerList, source)
    \/ /\ pc = "fetchSctrJson"
       /\ \E fetchOutcome \in FetchOutcomes :
             \E dataset \in (IF fetchOutcome = "ok" THEN Datasets ELSE {<<>>}) :
                 FetchSctrJsonSettles(fetchOutcome, dataset)
    \/ /\ pc = "industrySource"
       /\ \E batch \in BatchResults(industrySource, normalized) :
             IndustrySourceSettles(batch)
    \/ Ma50Settle
    \/ HttpRespond
    \/ IpcRespond
    \/ NextRequest

Spec == Init /\ [][Next]_vars

----------------------------------------------------------------------------
(* The peer statistics on their own: any records, then the functions *)

\* The classifications of the records given to the functions: empty,
\* plain, padded with white space, and white space only.
SampleClassifications ==
    {[industry |-> "", sector |-> ""],
     [industry |-> "Software", sector |-> "Technology"],
     [industry |-> " Software ", sector |-> "Technology"],
     [industry |-> "Banks", sector |-> " "]}

\* The record lists given to calculateIndustrySectorStats: at most
\* MaxRecords records, each with any score and any classification.
Samples ==
    UNION {
        {[i \in 1..n |-> RankRecord(SymbolPool[i], f[i][1], f[i][2])] :
            f \in [1..n -> ScoreValues \X SampleClassifications]} :
        n \in 0..Min(MaxRecords, Len(SymbolPool))}

\* The remappings given to calculateRelativeStrength: none, and one that
\* sends a provider label to a label of the base dataset.
Remappings == {<<>>, [name \in {"Banks"} |-> "Software"]}

InitStats ==
    /\ AppOff
    /\ RankOff
    /\ TrendOff
    /\ FeedOff
    /\ Idle
    /\ CacheOff
    /\ BatchOff
    /\ CsvOff
    /\ sample \in Samples
    /\ peerStats = Pending
    /\ strengths = Pending

\* calculateIndustrySectorStats(sample)
CalculateStats ==
    /\ peerStats = Pending
    /\ peerStats' = Return(calculateIndustrySectorStats(sample))
    /\ UNCHANGED <<sample, strengths, besideStats>>

\* calculateRelativeStrength(sample[i], stats, finvizToStockChartsMap) of
\* src/shared/apiHandlers.js
CalculateRelativeStrength(i, finvizToStockChartsMap) ==
    /\ peerStats # Pending
    /\ strengths' =
          [kind |-> "return", copy |-> "shared", record |-> sample[i],
           remap |-> finvizToStockChartsMap,
           value |-> calculateRelativeStrength(sample[i], peerStats.value,
                                               finvizToStockChartsMap)]
    /\ UNCHANGED <<sample, peerStats, besideStats>>

\* calculateRelativeStrength(sample[i], stats) of the second copy
CalculateRelativeStrengthLegacy(i) ==
    /\ peerStats # Pending
    /\ strengths' =
          [kind |-> "return", copy |-> "legacy", record |-> sample[i],
           remap |-> <<>>,
           value |-> calculateRelativeStrengthLegacy(sample[i], peerStats.value)]
    /\ UNCHANGED <<sample, peerStats, besideStats>>

NextStats ==
    \/ CalculateStats
    \/ \E i \in 1..Len(sample), finvizToStockChartsMap \in Remappings :
          CalculateRelativeStrength(i, finvizToStockChartsMap)
    \/ \E i \in 1..Len(sample) : CalculateRelativeStrengthLegacy(i)

StatsSpec == InitStats /\ [][NextStats]_vars

----------------------------------------------------------------------------
(* The caches: finvizCache, industryCache, pricesCache, industryMA50Cache *)

\* The last tick of the model's clock.
MaxTime == 4

\* The four caches: each an in-memory Map, a file, a time to live, and a
\* lookup function that reads the Map before it goes to the network.
CacheKinds == {"finviz", "yahoo", "prices", "industryMA50"}

\* The time to live of the classification caches (180 days), in ticks of
\* the clock of a run that follows one of them.
CACHE_TTL_MS == 2

\* The time to live of the price cache (1 day), in ticks of the clock of a
\* run that follows it.
PRICES_CACHE_TTL_MS == 1

\* The time to live of the trend cache (1 day), in ticks of the clock of a
\* run that follows it.
INDUSTRY_MA50_CACHE_TTL_MS == 1

TTL(kind) ==
    CASE kind \in {"finviz", "yahoo"} -> CACHE_TTL_MS
      [] kind = "prices" -> PRICES_CACHE_TTL_MS
      [] OTHER -> INDUSTRY_MA50_CACHE_TTL_MS

\* The Map is saved when a set of a result brings its size to a multiple
\* of this number.
FlushEvery(kind) == IF kind \in {"finviz", "industryMA50"} THEN 5 ELSE 10

\* The keys followed: tickers for the classification caches, a cache key
\* of a symbol for the price cache, an industry name for the trend cache.
CacheKeys(kind) ==
    CASE kind \in {"finviz", "yahoo"} -> {"X", "Y"}
      [] kind = "prices" -> {"prices_SMH_90", "prices_X_90"}
      [] OTHER -> {"Semiconductors", "Software"}

\* JavaScript's null and undefined as values of a Map.
JsNull == [null |-> TRUE]

Undefined == [undefined |-> TRUE]

\* if (cached): null and undefined are falsy, an object or an array is not.
Truthy(v) == v \notin {JsNull, Undefined}

\* Map.prototype.get
MapGet(map, key) == IF key \in DOMAIN map THEN map[key] ELSE Undefined

\* Map.prototype.set
MapSet(map, key, value) ==
    [k \in DOMAIN map \cup {key} |-> IF k = key THEN value ELSE map[k]]

\* Map.prototype.size, the entries not followed included.
MapSize(map, otherEntries) == Cardinality(DOMAIN map) + otherEntries

\* JSON.stringify of a cached value: the text of its members, name by
\* name.
JsonStringify(value) == {<<name, value[name]>> : name \in DOMAIN value}

\* JSON.parse of such a text.
JsonParse(text) ==
    [name \in {member[1] : member \in text} |->
        (CHOOSE member \in text : member[1] = name)[2]]

\* saveFinvizCache, saveCache, savePricesCache, saveIndustryMA50Cache:
\* every entry of the Map is written with the time of the save.
SaveCache(map, time) ==
    [k \in DOMAIN map |->
        [data |-> JsonStringify(map[k]), timestamp |-> time]]

\* The key an entry of the file is loaded under: the classification caches
\* upper-case it.
LoadedKey(kind, key) ==
    IF kind \in {"finviz", "yahoo"} THEN ToUpperCase(key) ELSE key

\* The entries of the file a load takes: those with a timestamp less than
\* the time to live ago.
ValidEntries(kind, file, time) ==
    {k \in DOMAIN file :
        file[k].timestamp # 0 /\ time - file[k].timestamp < TTL(kind)}

\* loadFinvizCache, loadCache, loadPricesCache, loadIndustryMA50Cache
\* into the empty Map of a process that starts.
LoadCache(kind, file, time) ==
    [k \in {LoadedKey(kind, j) : j \in ValidEntries(kind, file, time)} |->
        JsonParse(file[CHOOSE j \in ValidEntries(kind, file, time) :
                          LoadedKey(kind, j) = k].data)]

\* What the network answers to a lookup: a usable result, an answer
\* without result, an HTTP error, a failure of the request.
NetworkOutcomes == {"data", "empty", "httpError", "reject"}

\* The result a lookup builds from a usable answer.
FetchedData(kind) ==
    CASE kind = "finviz" ->
           [sector |-> "Technology", industry |-> "Semiconductors", source |-> "Finviz"]
      [] kind = "yahoo" ->
           [sector |-> "Technology", industry |-> "Semiconductors", source |-> "Yahoo"]
      [] kind = "prices" -> [days |-> 50, close |-> 104]
      [] OTHER -> TrendData

\* The lookups that end with cache.set(key, null): a classification page
\* or profile without sector and industry; any trend computation without
\* result. The price cache sets no null.
SetsNull(kind, answer) ==
    \/ kind \in {"finviz", "yahoo"} /\ answer = "empty"
    \/ kind = "industryMA50" /\ answer # "data"

\* The Map after a lookup that went to the network.
CacheAfterAnswer(kind, map, key, answer) ==
    IF answer = "data" THEN MapSet(map, key, FetchedData(kind))
    ELSE IF SetsNull(kind, answer) THEN MapSet(map, key, JsNull)
    ELSE map

\* The result of a lookup that went to the network.
ResultOfAnswer(kind, answer) ==
    IF answer = "data" THEN FetchedData(kind) ELSE JsNull

\* A process starts with the cache of one kind: the module is loaded, the
\* file is empty.
InitCache ==
    /\ AppOff
    /\ RankOff
    /\ TrendOff
    /\ FeedOff
    /\ Idle
    /\ StatsOff
    /\ BatchOff
    /\ CsvOff
    /\ cacheKind \in CacheKinds
    /\ now = 1
    /\ cache = EmptyMap
    /\ disk = EmptyMap
    /\ others \in {0, FlushEvery(cacheKind) - 1}
    /\ written = EmptyMap
    /\ flushed = EmptyMap
    /\ lookup = NoLookup
    /\ lastOp = "load"

\* Time passes.
Tick ==
    /\ now < MaxTime
    /\ now' = now + 1
    /\ lastOp' = "tick"
    /\ lookup' = NoLookup
    /\ UNCHANGED <<cacheKind, cache, disk, others, written, flushed,
                   besideCache>>

\* fetchFinvizIndustrySector, fetchYahooIndustrySector,
\* fetchHistoricalPrices, calculateIndustryMA50 for one key: a truthy
\* cached value is returned; otherwise the network is asked, the result is
\* set, and a set of a usable result that brings the size of the Map to a
\* multiple of FlushEvery saves the Map.
Lookup(key, answer) ==
    /\ lastOp' = "lookup"
    /\ LET cached == MapGet(cache, key)
           after  == CacheAfterAnswer(cacheKind, cache, key, answer)
           sets   == answer = "data" \/ SetsNull(cacheKind, answer)
           saves  == /\ answer = "data"
                     /\ MapSize(after, others) % FlushEvery(cacheKind) = 0
           recorded  == IF sets
                     THEN MapSet(written, key, [at |-> now, value |-> after[key]])
                     ELSE written
       IN  IF Truthy(cached)
           THEN /\ lookup' = [key |-> key, network |-> FALSE, result |-> cached,
                              held |-> cached, age |-> now - written[key].at]
                /\ UNCHANGED <<cache, disk, written, flushed>>
           ELSE /\ lookup' = [key |-> key, network |-> TRUE,
                              result |-> ResultOfAnswer(cacheKind, answer),
                              held |-> cached,
                              age |-> IF key \in DOMAIN written
                                      THEN now - written[key].at ELSE 0]
                /\ cache' = after
                /\ written' = recorded
                /\ disk' = IF saves THEN SaveCache(after, now) ELSE disk
                /\ flushed' = IF saves THEN [k \in DOMAIN after |-> recorded[k]]
                               ELSE flushed
    /\ UNCHANGED <<cacheKind, now, others, besideCache>>

\* The save at the end of a batch (fetchFinvizIndustrySectorBatch,
\* fetchYahooIndustrySectorBatch).
BatchEndFlush ==
    /\ cacheKind \in {"finviz", "yahoo"}
    /\ disk' = SaveCache(cache, now)
    /\ flushed' = [k \in DOMAIN cache |-> written[k]]
    /\ lastOp' = "flush"
    /\ lookup' = NoLookup
    /\ UNCHANGED <<cacheKind, now, cache, others, written,
                   besideCache>>

\* The process is started anew: its Map is empty and the module's load
\* fills it from the file.
Restart ==
    /\ cache' = LoadCache(cacheKind, disk, now)
    /\ written' = flushed
    /\ lastOp' = "load"
    /\ lookup' = NoLookup
    /\ UNCHANGED <<cacheKind, now, disk, others, flushed,
                   besideCache>>

NextCache ==
    \/ Tick
    \/ \E key \in CacheKeys(cacheKind), answer \in NetworkOutcomes :
          Lookup(key, answer)
    \/ BatchEndFlush
    \/ Restart

CacheSpec == InitCache /\ [][NextCache]_vars

----------------------------------------------------------------------------
(* The batch lookups of the two classification providers, as the enrich
   requests of one process run them side by side over the provider's cache.
   A step runs from one await on the network or on a timer to the next. *)

\* The enrich requests the process serves at the same time.
Callers == {1, 2}

MaxBatchTickers == 2

\* The tickers of a batch: fetchSctrForTickers passes its normalized ones.
BatchTickerPool == {"X", "Y"}

\* The ticker lists a batch lookup is called with.
BatchTickerLists ==
    UNION {[1..n -> BatchTickerPool] : n \in 0..MaxBatchTickers}

\* The maxConcurrent option a caller may pass.
ConcurrencyOptions == {1, 2}

\* What a provider answers to a request: a page or profile with a
\* classification, one without, a 429, a failure of the request.
ProviderAnswers == {"data", "empty", "status429", "reject"}

\* A 429 is an HTTP error like any other to a lookup.
OutcomeOf(answer) == IF answer = "status429" THEN "httpError" ELSE answer

\* String(ticker || "").trim().toUpperCase()
SymbolOf(ticker) == ToUpperCase(Trim(ticker))

\* A caller without batch lookup.
NoBatch ==
    [pc |-> "idle", tickers |-> <<>>, maxConcurrent |-> 1, queue |-> <<>>,
     chunk |-> 0, pending |-> {}, settled |-> EmptyMap, results |-> EmptyMap,
     limited |-> FALSE, held |-> EmptyMap, succeeded |-> {}]

\* A network request of a lookup: who awaits it, for which symbol, in which
\* chunk and at which place of it; what the cache held for the symbol when
\* it was issued, and whether its batch had seen a 429 before.
Request(caller, batch, index, symbol, held) ==
    [caller |-> caller, symbol |-> symbol, chunk |-> batch.chunk,
     index |-> index, held |-> held, afterLimit |-> batch.limited]

\* uncachedTickers: the tickers without entry, or with a null entry.
RECURSIVE UncachedTickers(_, _)
UncachedTickers(map, list) ==
    IF list = <<>> THEN <<>>
    ELSE LET symbol == SymbolOf(Head(list))
             rest   == UncachedTickers(map, Tail(list))
         IN  IF symbol \notin DOMAIN map \/ map[symbol] = JsNull
             THEN <<Head(list)>> \o rest
             ELSE rest

\* The results a Finviz batch starts with: the truthy cached values of its
\* tickers.
CachedResults(map, list) ==
    [symbol \in {SymbolOf(list[i]) : i \in DOMAIN list} \cap
                {k \in DOMAIN map : Truthy(map[k])} |-> map[symbol]]

\* The disk after a lookup has set its answer: the periodic save.
DiskAfterAnswer(kind, file, map, answer, time) ==
    IF answer = "data" /\ MapSize(map, 0) % FlushEvery(kind) = 0
    THEN SaveCache(map, time)
    ELSE file

\* The for loop of fetchFinvizIndustrySectorBatch from its top to its next
\* await: past the last ticker the cache is saved and the results are
\* returned; a ticker the cache holds by now is answered from it; for any
\* other a request is issued.
FinvizNext(caller, batch, map) ==
    IF batch.queue = <<>>
    THEN [batch |-> [batch EXCEPT !.pc = "done"], requests |-> {}, saves |-> TRUE]
    ELSE LET symbol == SymbolOf(Head(batch.queue))
             cached == MapGet(map, symbol)
         IN  IF symbol = ""
             THEN [batch |-> [batch EXCEPT !.pc = "delay"],
                   requests |-> {}, saves |-> FALSE]
             ELSE IF Truthy(cached)
             THEN [batch |-> [batch EXCEPT !.pc = "delay",
                                           !.results = MapSet(@, symbol, cached),
                                           !.succeeded = @ \cup {symbol}],
                   requests |-> {}, saves |-> FALSE]
             ELSE [batch |-> [batch EXCEPT !.pc = "awaiting", !.pending = {1}],
                   requests |-> {Request(caller, batch, 1, symbol, cached)},
                   saves |-> FALSE]

\* A chunk that takes every ticker left.
ChunkOfEverything(queue, maxConcurrent) == queue

\* tickers.slice(i, i + maxConcurrent) of what is left.
ChunkOf(queue, maxConcurrent) ==
    SubSeq(queue, 1, Min(maxConcurrent, Len(queue)))

\* A collection that stops at the first lookup without data.
CollectUntilFailure(results, chunk, settled) ==
    LET kept == {i \in DOMAIN chunk :
                    \A j \in 1..i : Truthy(settled[j].value)}
    IN  [key \in DOMAIN results \cup {ToUpperCase(chunk[i]) : i \in kept} |->
            IF \E i \in kept : ToUpperCase(chunk[i]) = key
            THEN settled[CHOOSE i \in kept : ToUpperCase(chunk[i]) = key].value
            ELSE results[key]]

\* The loop over the results of Promise.allSettled: a fulfilled promise
\* with data is set under its upper-cased ticker.
CollectResults(results, chunk, settled) ==
    LET kept == {i \in DOMAIN chunk :
                    settled[i].status = "fulfilled" /\ Truthy(settled[i].value)}
    IN  [key \in DOMAIN results \cup {ToUpperCase(chunk[i]) : i \in kept} |->
            IF \E i \in kept : ToUpperCase(chunk[i]) = key
            THEN settled[CHOOSE i \in kept :
                            /\ ToUpperCase(chunk[i]) = key
                            /\ \A j \in kept :
                                  ToUpperCase(chunk[j]) = key => j <= i].value
            ELSE results[key]]

\* fetchYahooIndustrySectorBatch once every promise of the chunk has
\* settled: the results are collected; with chunks left it waits delayMs,
\* without it saves the cache and returns.
YahooCollect(batch) ==
    LET chunk == ChunkOf(batch.queue, batch.maxConcurrent)
        rest  == SubSeq(batch.queue, Len(chunk) + 1, Len(batch.queue))
        after == [batch EXCEPT
                     !.results = CollectResults(@, chunk, batch.settled),
                     !.queue = rest, !.settled = EmptyMap]
    IN  IF rest = <<>>
        THEN [batch |-> [after EXCEPT !.pc = "done"], requests |-> {}, saves |-> TRUE]
        ELSE [batch |-> [after EXCEPT !.pc = "delay"], requests |-> {}, saves |-> FALSE]

\* The loop of fetchYahooIndustrySectorBatch from its top to its next
\* await: every lookup of the chunk is started at once, those the cache
\* answers are fulfilled, for the others a request is issued.
YahooNext(caller, batch, map) ==
    IF batch.queue = <<>>
    THEN [batch |-> [batch EXCEPT !.pc = "done"], requests |-> {}, saves |-> TRUE]
    ELSE LET chunk   == ChunkOf(batch.queue, batch.maxConcurrent)
             started == [batch EXCEPT !.chunk = @ + 1]
             hits    == {i \in DOMAIN chunk :
                            \/ SymbolOf(chunk[i]) = ""
                            \/ Truthy(MapGet(map, SymbolOf(chunk[i])))}
             misses  == DOMAIN chunk \ hits
             fulfilled ==
                 [i \in hits |->
                     [status |-> "fulfilled",
                      value  |-> IF SymbolOf(chunk[i]) = "" THEN JsNull
                                 ELSE map[SymbolOf(chunk[i])]]]
             running ==
                 [started EXCEPT
                     !.pc = "awaiting", !.pending = misses,
                     !.settled = fulfilled,
                     !.succeeded = @ \cup {SymbolOf(chunk[i]) : i \in
                                      {h \in hits : SymbolOf(chunk[h]) # ""}}]
         IN  IF misses = {}
             THEN YahooCollect(running)
             ELSE [batch |-> running,
                   requests |-> {Request(caller, started, i, SymbolOf(chunk[i]),
                                         MapGet(map, SymbolOf(chunk[i]))) :
                                    i \in misses},
                   saves |-> FALSE]

\* A process with the cache of one provider loaded and no batch running.
InitBatches ==
    /\ AppOff
    /\ RankOff
    /\ TrendOff
    /\ FeedOff
    /\ Idle
    /\ StatsOff
    /\ CsvOff
    /\ cacheKind \in {"finviz", "yahoo"}
    /\ now = 1
    /\ cache = EmptyMap
    /\ disk = EmptyMap
    /\ others = 0
    /\ written = EmptyMap
    /\ flushed = EmptyMap
    /\ lookup = NoLookup
    /\ lastOp = None
    /\ batches = [caller \in Callers |-> NoBatch]
    /\ inFlight = {}

\* What a step of a batch lookup leaves alone of the cache.
besideLookups == <<cacheKind, now, others, written, flushed, lookup, lastOp>>

\* A step of a caller's batch that asked no answer of the network.
Proceed(caller, step) ==
    /\ batches' = [batches EXCEPT ![caller] = step.batch]
    /\ inFlight' = inFlight \cup step.requests
    /\ disk' = IF step.saves THEN SaveCache(cache, now) ELSE disk
    /\ UNCHANGED <<cache, besideLookups, besideBatches>>

\* fetchFinvizIndustrySectorBatch is called.
StartFinvizBatch(caller, list) ==
    /\ cacheKind = "finviz"
    /\ batches[caller].pc = "idle"
    /\ Proceed(caller,
               FinvizNext(caller,
                          [NoBatch EXCEPT !.tickers = list,
                                          !.queue = UncachedTickers(cache, list),
                                          !.results = CachedResults(cache, list),
                                          !.held = CachedResults(cache, list)],
                          cache))

\* fetchYahooIndustrySectorBatch is called.
StartYahooBatch(caller, list, maxConcurrent) ==
    /\ cacheKind = "yahoo"
    /\ batches[caller].pc = "idle"
    /\ Proceed(caller,
               YahooNext(caller,
                         [NoBatch EXCEPT !.tickers = list, !.queue = list,
                                         !.maxConcurrent = maxConcurrent,
                                         !.held = CachedResults(cache, list)],
                         cache))

\* The timer of delayMs fires: the loop goes on with the next ticker or
\* chunk.
DelayElapsed(caller) ==
    /\ batches[caller].pc = "delay"
    /\ Proceed(caller,
               IF cacheKind = "finviz"
               THEN FinvizNext(caller,
                               [batches[caller] EXCEPT !.queue = Tail(@)], cache)
               ELSE YahooNext(caller, batches[caller], cache))

\* The network answers a request of fetchFinvizIndustrySector: the lookup
\* sets what it sets and returns, the batch keeps a result and waits
\* delayMs. No answer makes the lookup throw.
FinvizResponse(request, answer) ==
    /\ cacheKind = "finviz"
    /\ LET caller == request.caller
           batch  == batches[caller]
           after  == CacheAfterAnswer("finviz", cache, request.symbol,
                                      OutcomeOf(answer))
       IN  /\ cache' = after
           /\ disk' = DiskAfterAnswer("finviz", disk, after, answer, now)
           /\ batches' =
                 [batches EXCEPT ![caller] =
                     [batch EXCEPT
                         !.pc = "delay", !.pending = {},
                         !.limited = @ \/ answer = "status429",
                         !.results = IF answer = "data"
                                     THEN MapSet(@, request.symbol,
                                                 FetchedData("finviz"))
                                     ELSE @,
                         !.succeeded = IF answer = "data"
                                       THEN @ \cup {request.symbol} ELSE @]]
    /\ inFlight' = inFlight \ {request}
    /\ UNCHANGED <<besideLookups, besideBatches>>

\* The network answers a request of fetchYahooIndustrySector: the lookup
\* sets what it sets and its promise is fulfilled; with the last promise of
\* the chunk Promise.allSettled resolves and the batch goes on.
YahooResponse(request, answer) ==
    /\ cacheKind = "yahoo"
    /\ LET caller == request.caller
           batch  == batches[caller]
           after  == CacheAfterAnswer("yahoo", cache, request.symbol,
                                      OutcomeOf(answer))
           file   == DiskAfterAnswer("yahoo", disk, after, answer, now)
           settledNow ==
               [batch EXCEPT
                   !.pending = @ \ {request.index},
                   !.settled = MapSet(@, request.index,
                                      [status |-> "fulfilled",
                                       value |-> ResultOfAnswer("yahoo",
                                                     OutcomeOf(answer))]),
                   !.succeeded = IF answer = "data"
                                 THEN @ \cup {request.symbol} ELSE @]
           step == IF settledNow.pending = {}
                   THEN YahooCollect(settledNow)
                   ELSE [batch |-> settledNow, requests |-> {}, saves |-> FALSE]
       IN  /\ cache' = after
           /\ disk' = IF step.saves THEN SaveCache(after, now) ELSE file
           /\ batches' = [batches EXCEPT ![caller] = step.batch]
    /\ inFlight' = inFlight \ {request}
    /\ UNCHANGED <<besideLookups, besideBatches>>

NextBatches ==
    \/ \E caller \in Callers, list \in BatchTickerLists :
          StartFinvizBatch(caller, list)
    \/ \E caller \in Callers, list \in BatchTickerLists,
          maxConcurrent \in ConcurrencyOptions :
          StartYahooBatch(caller, list, maxConcurrent)
    \/ \E caller \in Callers : DelayElapsed(caller)
    \/ \E request \in inFlight, answer \in ProviderAnswers :
          FinvizResponse(request, answer)
    \/ \E request \in inFlight, answer \in ProviderAnswers :
          YahooResponse(request, answer)

BatchSpec == InitBatches /\ [][NextBatches]_vars

----------------------------------------------------------------------------
(* The detection of the ticker column of an uploaded table *)

MaxCellLength == 4

MaxColumns == 2

MaxRows == 1

LowerChar(c) ==
    LET k == IndexOfChar(UpperCaseLetters, c)
    IN  IF k = 0 THEN c ELSE CharAt(LowerCaseLetters, k)

\* String.prototype.toLowerCase
RECURSIVE ToLowerCase(_)
ToLowerCase(s) ==
    IF Len(s) = 0 THEN ""
    ELSE LowerChar(CharAt(s, 1)) \o ToLowerCase(SubSeq(s, 2, Len(s)))

\* String.prototype.lastIndexOf of a character, counted from 1; 0 when
\* absent.
LastIndexOfChar(s, c) ==
    LET hits == {i \in 1..Len(s) : CharAt(s, i) = c}
    IN  IF hits = {} THEN 0 ELSE CHOOSE i \in hits : \A j \in hits : j <= i

\* String.prototype.includes
Includes(s, part) ==
    \E i \in 1..(Len(s) - Len(part) + 1) : SubSeq(s, i, i + Len(part) - 1) = part

\* replace(/^"+/, "")
RECURSIVE StripLeadingQuotes(_)
StripLeadingQuotes(s) ==
    IF Len(s) > 0 /\ CharAt(s, 1) = "\""
    THEN StripLeadingQuotes(SubSeq(s, 2, Len(s)))
    ELSE s

\* replace(/"+$/, "")
RECURSIVE StripTrailingQuotes(_)
StripTrailingQuotes(s) ==
    IF Len(s) > 0 /\ CharAt(s, Len(s)) = "\""
    THEN StripTrailingQuotes(SubSeq(s, 1, Len(s) - 1))
    ELSE s

\* s.replace(/^"+|"+$/g, "")
StripWrappingQuotes(s) == StripTrailingQuotes(StripLeadingQuotes(s))

\* The characters of the class [A-Z0-9.\-].
TickerCharacters == "ABCDEFGHIJKLMNOPQRSTUVWXYZ0123456789.-"

\* /^[A-Z0-9.\-]{1,10}$/.test(cand)
MatchesTickerPattern(cand) ==
    /\ Len(cand) >= 1
    /\ Len(cand) <= 10
    /\ \A i \in 1..Len(cand) : IndexOfChar(TickerCharacters, CharAt(cand, i)) # 0

\* A cell that holds a string.
StringCell(s) == [string |-> s]

\* v == null ? "" : String(v)
StringOf(v) == IF v \in {JsNull, Undefined} THEN "" ELSE v.string

\* normalizeTickerCandidate without the trim of what follows the colon.
normalizeTickerCandidateUntrimmed(v) ==
    LET s1 == Trim(StringOf(v))
    IN  IF s1 = "" THEN ""
        ELSE LET s2 == StripWrappingQuotes(s1)
                 quoteIdx == IndexOfChar(s2, "\"")
                 s3 == IF quoteIdx > 0 THEN SubSeq(s2, 1, quoteIdx - 1) ELSE s2
                 s4 == Trim(s3)
             IN  IF s4 = "" THEN ""
                 ELSE LET colonIdx == LastIndexOfChar(s4, ":")
                          s5 == IF colonIdx > 0 /\ colonIdx < Len(s4)
                                THEN SubSeq(s4, colonIdx + 1, Len(s4))
                                ELSE s4
                          cand == ToUpperCase(s5)
                      IN  IF cand \in {"TICKER", "SYMBOL"} THEN ""
                          ELSE IF ~MatchesTickerPattern(cand) THEN ""
                          ELSE cand

\* normalizeTickerCandidate; the indexes count from 1 and are 0 for -1.
normalizeTickerCandidate(v) ==
    LET s1 == Trim(StringOf(v))
    IN  IF s1 = "" THEN ""
        ELSE LET s2 == StripWrappingQuotes(s1)
                 quoteIdx == IndexOfChar(s2, "\"")
                 s3 == IF quoteIdx > 0 THEN SubSeq(s2, 1, quoteIdx - 1) ELSE s2
                 s4 == Trim(s3)
             IN  IF s4 = "" THEN ""
                 ELSE LET colonIdx == LastIndexOfChar(s4, ":")
                          s5 == IF colonIdx > 0 /\ colonIdx < Len(s4)
                                THEN Trim(SubSeq(s4, colonIdx + 1, Len(s4)))
                                ELSE s4
                          cand == ToUpperCase(s5)
                      IN  IF cand \in {"TICKER", "SYMBOL"} THEN ""
                          ELSE IF ~MatchesTickerPattern(cand) THEN ""
                          ELSE cand

\* The vocabulary with the short words first.
preferredShortFirst == <<"tick", "sym", "ticker", "symbol", "symbols", "tickers">>

\* detectTickerColumnIndex: preferred
preferred == <<"ticker", "symbol", "tick", "sym", "symbols", "tickers">>

\* columns.map((c) => String(c || "").trim().toLowerCase())
NormalizedColumns(columns) ==
    [i \in DOMAIN columns |-> ToLowerCase(Trim(columns[i]))]

\* normalized.findIndex((c) => c === p || c.includes(p)), counted from 0.
FindIndex(names, p) ==
    LET hits == {i \in DOMAIN names : names[i] = p \/ Includes(names[i], p)}
    IN  IF hits = {} THEN -1
        ELSE (CHOOSE i \in hits : \A j \in hits : i <= j) - 1

\* The loop over preferred from its k-th word on: the index of the first
\* word found, -1 when none is.
RECURSIVE PreferredIndex(_, _)
PreferredIndex(names, k) ==
    IF k > Len(preferred) THEN -1
    ELSE LET idx == FindIndex(names, preferred[k])
         IN  IF idx >= 0 THEN idx ELSE PreferredIndex(names, k + 1)

\* A score counted over every row.
ScoreOfAllRows(rows, name) ==
    Cardinality({r \in 1..Len(rows) :
                    normalizeTickerCandidate(MapGet(rows[r], name)) # ""})

\* The score of a column: how many of the first 200 rows hold a ticker
\* candidate under its name.
Score(rows, name) ==
    Cardinality({r \in 1..Min(200, Len(rows)) :
                    normalizeTickerCandidate(MapGet(rows[r], name)) # ""})

\* The loop over the columns from the i-th on: a column takes over from the
\* best one with a greater score only.
RECURSIVE BestIndex(_, _, _, _, _)
BestIndex(rows, columns, i, bestIdx, bestScore) ==
    IF i > Len(columns) THEN bestIdx
    ELSE LET score == Score(rows, columns[i])
         IN  IF score > bestScore
             THEN BestIndex(rows, columns, i + 1, i - 1, score)
             ELSE BestIndex(rows, columns, i + 1, bestIdx, bestScore)

\* detectTickerColumnIndex
detectTickerColumnIndex(rows, columns) ==
    IF Len(columns) = 0 THEN 0
    ELSE LET idx == PreferredIndex(NormalizedColumns(columns), 1)
         IN  IF idx >= 0 THEN idx
             ELSE BestIndex(rows, columns, 1, 0, -1)

\* The characters the cells followed are made of.
CellAlphabet == {"A", "b", ":", "\"", " "}

RECURSIVE StringsOfLength(_)
StringsOfLength(n) ==
    IF n = 0 THEN {""}
    ELSE {c \o s : c \in CellAlphabet, s \in StringsOfLength(n - 1)}

\* Cells of a table worth a look of their own.
NotableCells ==
    {"TICKER", "symbol", "Ticker ", "NASDAQ:AAPL ", "NASDAQ: AAPL", "AAPL\"X",
     "\"MSFT\"", "BRK.B", "BF-B", "A_B", "ABCDEFGHIJ", "ABCDEFGHIJK", "x:ticker"}

\* The values given to normalizeTickerCandidate.
Cells ==
    {StringCell(s) : s \in NotableCells \cup
                          UNION {StringsOfLength(n) : n \in 0..MaxCellLength}}
    \cup {JsNull, Undefined}

\* The names of the columns of a table.
ColumnNames ==
    {"Ticker", "Name", "Price", " SYMBOL ", "sym", "Stock Symbols", "tick"}

\* The cells of a row of a table.
RowCells == {StringCell("AAPL"), StringCell("n/a")}

\* Tables of more than 200 rows: the first 200 rows hold a ticker in the
\* first column or in none, the rows behind them hold tickers in the second.
LongTables ==
    {[columns |-> <<"Name", "Price">>,
      rows |-> [r \in 1..202 |->
                   IF r <= 200
                   THEN [Name |-> first, Price |-> StringCell("n/a")]
                   ELSE [Name |-> StringCell("n/a"), Price |-> StringCell("AAPL")]]] :
        first \in RowCells}

\* The tables given to detectTickerColumnIndex: the rows of the parsed
\* text are objects keyed by the names of the columns.
Tables ==
    LongTables \cup
    UNION {
        {[columns |-> columns, rows |-> rows] :
            rows \in UNION {[1..m -> [{columns[i] : i \in DOMAIN columns} -> RowCells]] :
                               m \in 0..MaxRows}} :
        columns \in UNION {[1..n -> ColumnNames] : n \in 0..MaxColumns}}

MaxLines == 2

\* Papa.parse(csvText, {header: true, skipEmptyLines: true}).data of a
\* text given by the cells of its non-empty lines: the first line names the
\* fields, every other line is an object of its cells under these names.
PapaParseWithHeader(lines) ==
    IF lines = <<>> THEN <<>>
    ELSE [r \in 1..(Len(lines) - 1) |->
             [name \in {lines[1][i] : i \in DOMAIN lines[1] \cap DOMAIN lines[r + 1]} |->
                 StringCell(lines[r + 1][CHOOSE i \in DOMAIN lines[1] \cap
                                                      DOMAIN lines[r + 1] :
                                             lines[1][i] = name])]]

\* Papa.parse(csvText, {header: false, skipEmptyLines: true}).data: every
\* line is an array of its cells.
PapaParseWithoutHeader(lines) == lines

\* Object.keys(rows[0]) of the rows parsed with a header.
KeysOfFirstRow(lines) ==
    SubSeq(lines[1], 1, Min(Len(lines[1]), Len(lines[2])))

\* `col_${i}`
PositionalName(i) == "col_" \o CharAt("0123456789", i + 1)

\* Math.max(...arrRows.map((r) => r.length), 0)
RECURSIVE Width(_)
Width(arrRows) ==
    IF arrRows = <<>> THEN 0
    ELSE LET rest == Width(Tail(arrRows))
         IN  IF Len(Head(arrRows)) > rest THEN Len(Head(arrRows)) ELSE rest

\* The objects made of the arrays of a text without header: every
\* positional name holds the cell at its place, undefined beyond the row.
PositionalRows(arrRows, width) ==
    [r \in DOMAIN arrRows |->
        [name \in {PositionalName(i - 1) : i \in 1..width} |->
            LET i == CHOOSE j \in 1..width : PositionalName(j - 1) = name
            IN  IF i <= Len(arrRows[r]) THEN StringCell(arrRows[r][i])
                ELSE Undefined]]

\* Array.from(new Set(tickers))
RECURSIVE Unique(_)
Unique(list) ==
    IF list = <<>> THEN <<>>
    ELSE LET front == Unique(SubSeq(list, 1, Len(list) - 1))
             last  == list[Len(list)]
         IN  IF \E i \in DOMAIN front : front[i] = last
             THEN front ELSE Append(front, last)

\* The loop of parseCsvForTickers over the rows: the candidates that are
\* not empty, in the order of the rows.
RECURSIVE TickersOfRows(_, _)
TickersOfRows(rows, name) ==
    IF rows = <<>> THEN <<>>
    ELSE LET t == normalizeTickerCandidate(MapGet(Head(rows), name))
         IN  IF t # "" THEN <<t>> \o TickersOfRows(Tail(rows), name)
             ELSE TickersOfRows(Tail(rows), name)

\* parseCsvForTickers past the parsing: detection of the column and
\* extraction of its tickers.
TickersOfTable(rows, columns) ==
    LET index == detectTickerColumnIndex(rows, columns)
        name  == IF index + 1 \in DOMAIN columns THEN columns[index + 1] ELSE ""
    IN  [columns |-> columns, tickerColumnIndex |-> index,
         tickerColumnName |-> name,
         tickers |-> Unique(TickersOfRows(rows, name))]

\* parseCsvForTickers: the text is parsed with a header first; only when
\* that leaves no row it is parsed without, under positional names.
parseCsvForTickers(lines) ==
    LET first   == PapaParseWithHeader(lines)
        columns == IF Len(first) > 0 THEN KeysOfFirstRow(lines) ELSE <<>>
    IN  IF Len(columns) > 0 THEN TickersOfTable(first, columns)
        ELSE LET arrRows == PapaParseWithoutHeader(lines)
                 width   == Width(arrRows)
             IN  IF Len(arrRows) > 0
                 THEN TickersOfTable(PositionalRows(arrRows, width),
                                     [i \in 1..width |-> PositionalName(i - 1)])
                 ELSE TickersOfTable(first, columns)

\* The lines of a header.
HeaderLines == {<<"Ticker">>, <<"Name", "Symbol">>, <<"Name", "Price">>}

\* The cells of the lines of data.
DataCells == {"AAPL", "MSFT", "n/a"}

\* The lines of data of a width; a line that opens a text repeats no cell.
DataLines(width) == [1..width -> DataCells]

\* The texts given to parseCsvForTickers, by the cells of their non-empty
\* lines, with or without a header line before the lines of data.
CsvTexts ==
    UNION {
        UNION {
            {[header |-> FALSE, lines |-> data] :
                data \in {d \in [1..n -> DataLines(width)] :
                             n > 0 => \A i, j \in 1..width :
                                         d[1][i] = d[1][j] => i = j}}
            \cup
            {[header |-> TRUE, lines |-> <<h>> \o data] :
                h \in {l \in HeaderLines : Len(l) = width},
                data \in [1..n -> DataLines(width)]} :
            n \in 0..MaxLines} :
        width \in 1..2}

\* A cell, a table or a text is at hand.
InitCsv ==
    /\ AppOff
    /\ RankOff
    /\ TrendOff
    /\ FeedOff
    /\ Idle
    /\ StatsOff
    /\ CacheOff
    /\ BatchOff
    /\ tickerCandidate = Pending
    /\ tickerColumnIndex = Pending
    /\ parsed = Pending
    /\ \/ cell \in Cells /\ table = Pending /\ csvText = Pending
       \/ cell = Pending /\ table \in Tables /\ csvText = Pending
       \/ cell = Pending /\ table = Pending /\ csvText \in CsvTexts

NormalizeTickerCandidate ==
    /\ cell # Pending
    /\ tickerCandidate = Pending
    /\ tickerCandidate' = [returned |-> normalizeTickerCandidate(cell)]
    /\ UNCHANGED <<cell, table, tickerColumnIndex, csvText, parsed, besideCsv>>

DetectTickerColumnIndex ==
    /\ table # Pending
    /\ tickerColumnIndex = Pending
    /\ tickerColumnIndex' =
          [returned |-> detectTickerColumnIndex(table.rows, table.columns)]
    /\ UNCHANGED <<cell, tickerCandidate, table, csvText, parsed, besideCsv>>

ParseCsvForTickers ==
    /\ csvText # Pending
    /\ parsed = Pending
    /\ parsed' = parseCsvForTickers(csvText.lines)
    /\ UNCHANGED <<cell, tickerCandidate, table, tickerColumnIndex, csvText,
                   besideCsv>>

NextCsv ==
    NormalizeTickerCandidate \/ DetectTickerColumnIndex \/ ParseCsvForTickers

CsvSpec == InitCsv /\ [][NextCsv]_vars

----------------------------------------------------------------------------
(* The normalization of the base feed: normalizeRecords *)

\* Most items of a feed that is normalized.
MaxItems == 1

\* A JavaScript number: finite and exact, NaN, or an infinity with its sign.
JsNumber(f) == [number |-> f]

JsNaN == [nan |-> TRUE]

JsInfinity(sign) == [infinity |-> sign]

\* Number.isFinite
IsFinite(n) == "number" \in DOMAIN n

Digits == "0123456789"

IsDigits(s) ==
    /\ Len(s) > 0
    /\ \A i \in 1..Len(s) : IndexOfChar(Digits, CharAt(s, i)) # 0

\* The value of a string of digits, 0 for the empty string.
RECURSIVE NaturalOf(_)
NaturalOf(s) ==
    IF Len(s) = 0 THEN 0
    ELSE 10 * NaturalOf(SubSeq(s, 1, Len(s) - 1))
         + IndexOfChar(Digits, CharAt(s, Len(s))) - 1

RECURSIVE PowerOfTen(_)
PowerOfTen(n) == IF n = 0 THEN 1 ELSE 10 * PowerOfTen(n - 1)

\* The digits of a natural number.
RECURSIVE NaturalToString(_)
NaturalToString(n) ==
    IF n < 10 THEN CharAt(Digits, n + 1)
    ELSE NaturalToString(n \div 10) \o CharAt(Digits, (n % 10) + 1)

\* Number(s) of a string: white space around is ignored, the empty string
\* is 0, a decimal literal with an optional sign is its value, Infinity
\* with an optional sign is an infinity, anything else is NaN.
Number(s) ==
    LET t      == Trim(s)
        signed == Len(t) > 0 /\ CharAt(t, 1) \in {"+", "-"}
        sign   == IF signed /\ CharAt(t, 1) = "-" THEN -1 ELSE 1
        body   == IF signed THEN SubSeq(t, 2, Len(t)) ELSE t
        dot    == IndexOfChar(body, ".")
        whole  == IF dot = 0 THEN body ELSE SubSeq(body, 1, dot - 1)
        part   == IF dot = 0 THEN "" ELSE SubSeq(body, dot + 1, Len(body))
    IN  IF t = "" THEN JsNumber(Frac(0, 1))
        ELSE IF body = "Infinity" THEN JsInfinity(sign)
        ELSE IF /\ whole = "" \/ IsDigits(whole)
                /\ part = "" \/ IsDigits(part)
                /\ whole # "" \/ part # ""
        THEN JsNumber(Frac(sign * (NaturalOf(whole) * PowerOfTen(Len(part))
                                   + NaturalOf(part)),
                           PowerOfTen(Len(part))))
        ELSE JsNaN

\* String(n) of a number with at most one decimal place.
NumberToString(n) ==
    IF n = JsNaN THEN "NaN"
    ELSE IF ~IsFinite(n) THEN (IF n.infinity < 0 THEN "-Infinity" ELSE "Infinity")
    ELSE LET f     == n.number
             a     == Abs(f.num)
             whole == NaturalToString(a \div f.den)
             tenth == ((a % f.den) * 10) \div f.den
         IN  (IF f.num < 0 THEN "-" ELSE "")
             \o whole
             \o (IF f.den = 1 THEN "" ELSE "." \o CharAt(Digits, tenth + 1))

\* String(v) of a string or a number.
JsString(v) == IF "string" \in DOMAIN v THEN v.string ELSE NumberToString(v)

\* Math.trunc
Trunc(n) ==
    LET f == n.number
    IN  JsNumber(Frac((IF f.num < 0 THEN -1 ELSE 1) * (Abs(f.num) \div f.den), 1))

toString(v) == IF v \in {JsNull, Undefined} THEN "" ELSE Trim(JsString(v))

toNumber(v) ==
    LET s == toString(v)
    IN  IF s = "" THEN JsNull
        ELSE LET n == Number(s)
             IN  IF IsFinite(n) THEN n ELSE JsNull

toInt(v) ==
    LET s == toString(v)
    IN  IF s = "" THEN JsNull
        ELSE LET n == Number(s)
             IN  IF ~IsFinite(n) THEN JsNull ELSE Trunc(n)

Months ==
    <<"Jan", "Feb", "Mar", "Apr", "May", "Jun",
      "Jul", "Aug", "Sep", "Oct", "Nov", "Dec">>

monthToNum(mon) ==
    LET key == SubSeq(mon, 1, Min(3, Len(mon)))
    IN  IF \E k \in DOMAIN Months : Months[k] = key
        THEN LET k == CHOOSE j \in DOMAIN Months : Months[j] = key
             IN  (IF k < 10 THEN "0" ELSE "") \o NaturalToString(k)
        ELSE ""

\* /^\d{4}-\d{2}-\d{2}$/
IsIsoDate(t) ==
    /\ Len(t) = 10
    /\ \A i \in 1..10 : IF i \in {5, 8} THEN CharAt(t, i) = "-"
                        ELSE IndexOfChar(Digits, CharAt(t, i)) # 0

\* The parts of a string white space separates.
RECURSIVE Words(_)
Words(s) ==
    LET t == TrimStart(s)
    IN  IF t = "" THEN <<>>
        ELSE LET gaps == {i \in 1..Len(t) : IsWhiteSpace(CharAt(t, i))}
                 k    == IF gaps = {} THEN Len(t) + 1
                         ELSE CHOOSE i \in gaps : \A j \in gaps : i <= j
             IN  <<SubSeq(t, 1, k - 1)>> \o Words(SubSeq(t, k, Len(t)))

IsLetters(s) ==
    \A i \in 1..Len(s) :
        \/ IndexOfChar(LowerCaseLetters, CharAt(s, i)) # 0
        \/ IndexOfChar(UpperCaseLetters, CharAt(s, i)) # 0

parseDate(s) ==
    LET t == Trim(s)
        m == Words(t)
    IN  IF t = "" THEN ""
        ELSE IF IsIsoDate(t) THEN t
        ELSE IF /\ Len(m) = 3
                /\ IsDigits(m[1]) /\ Len(m[1]) <= 2
                /\ IsLetters(m[2]) /\ Len(m[2]) = 3
                /\ IsDigits(m[3]) /\ Len(m[3]) = 4
                /\ monthToNum(m[2]) # ""
        THEN m[3] \o "-" \o monthToNum(m[2]) \o "-"
             \o (IF Len(m[1]) = 1 THEN "0" ELSE "") \o m[1]
        ELSE ""

\* item?.field of an item of the feed: an object, or null.
Field(item, name) == IF item = JsNull THEN Undefined ELSE MapGet(item, name)

\* "field" in item, of an item that is an object
HasField(item, name) == item # JsNull /\ name \in DOMAIN item

\* The loop of normalizeRecords from an item on, asOfDate being the date
\* the items before it left.
RECURSIVE NormalizeFrom(_, _)
NormalizeFrom(rest, asOfDate) ==
    IF rest = <<>> THEN <<>>
    ELSE LET item   == Head(rest)
             dated  == HasField(item, "date")
             d0     == IF dated THEN toString(item["date"]) ELSE ""
             asOf   == IF d0 # "" /\ parseDate(d0) # "" THEN parseDate(d0)
                       ELSE asOfDate
             symbol == toString(Field(item, "symbol"))
             own    == parseDate(toString(Field(item, "date")))
         IN  IF (dated /\ ~HasField(item, "symbol")) \/ symbol = ""
             THEN NormalizeFrom(Tail(rest), asOf)
             ELSE <<[date      |-> IF own # "" THEN own ELSE asOf,
                     symbol    |-> symbol,
                     name      |-> toString(Field(item, "name")),
                     SCTR      |-> toNumber(Field(item, "SCTR")),
                     delta     |-> toNumber(Field(item, "delta")),
                     close     |-> toNumber(Field(item, "close")),
                     marketCap |-> toNumber(Field(item, "marketCap")),
                     vol       |-> toInt(Field(item, "vol")),
                     industry  |-> toString(Field(item, "industry")),
                     sector    |-> toString(Field(item, "sector"))]>>
                  \o NormalizeFrom(Tail(rest), asOf)

normalizeRecords(feed) == NormalizeFrom(feed, "")

\* What the feed gives as the symbol of an item; undefined: no such field.
SymbolValues ==
    {Undefined, JsNull, StringCell(""), StringCell(" "), StringCell("AAPL"),
     StringCell(" aapl "), JsNumber(Frac(7, 1))}

\* What the feed gives as a numeric field of an item.
NumericValues ==
    {JsNull, StringCell(""), StringCell("abc"), StringCell("12.5"),
     StringCell(" -7 "), StringCell("Infinity"), StringCell("NaN"),
     JsNumber(Frac(25, 2)), JsNumber(Frac(-5, 2)), JsInfinity(1)}

NumericFields == {"SCTR", "delta", "close", "marketCap", "vol"}

\* What the feed gives as the date of an item.
DateValues ==
    {StringCell("2024-01-02"), StringCell("2 Jan 2024"), StringCell("soon")}

\* An object of the feed with the fields given; undefined stands for a
\* field that is not there.
Item(fields) == [name \in {n \in DOMAIN fields : fields[n] # Undefined} |-> fields[name]]

\* The items of a feed: null, an object with or without symbol, and an
\* object with a symbol and one numeric field or a date.
Items ==
    {JsNull}
    \cup {Item([symbol |-> s]) : s \in SymbolValues}
    \cup {Item([n \in {"symbol", field} |->
                   IF n = "symbol" THEN StringCell("AAPL") ELSE v]) :
             field \in NumericFields, v \in NumericValues}
    \cup {Item([symbol |-> s, date |-> d]) :
             s \in {Undefined, StringCell("AAPL")}, d \in DateValues}

\* Feeds that open with an item of a date alone.
DatedFeeds ==
    {<<Item([date |-> d]), Item([symbol |-> StringCell("AAPL"), vol |-> v])>> :
        d \in DateValues, v \in NumericValues}

\* The arrays the base feed answers with.
Feeds == DatedFeeds \cup UNION {[1..n -> Items] : n \in 0..MaxItems}

\* An array of the feed is at hand.
InitFeed ==
    /\ AppOff
    /\ RankOff
    /\ TrendOff
    /\ Idle
    /\ StatsOff
    /\ CacheOff
    /\ BatchOff
    /\ CsvOff
    /\ raw \in {[items |-> feed] : feed \in Feeds}
    /\ out = Pending

NormalizeRecords ==
    /\ raw # Pending
    /\ out = Pending
    /\ out' = [returned |-> normalizeRecords(raw.items)]
    /\ UNCHANGED <<raw, besideFeed>>

NextFeed == NormalizeRecords

FeedSpec == InitFeed /\ [][NextFeed]_vars

----------------------------------------------------------------------------
(* The trend of an industry: calculateIndustryMA50 *)

\* Most stocks of an industry in a dataset given to calculateIndustryMA50,
\* beside the datasets made to exceed the sample.
MaxStocks == 2

\* Most calls of calculateIndustryMA50 in one run of the process.
MaxCalls == 2

\* Most stocks whose prices make the index of an industry.
SampleSize == 20

INDUSTRY_ETF_MAP ==
       ("Semiconductors" :> "SMH")
    @@ ("Semiconductor Equipment" :> "SMH")
    @@ ("Software" :> "IGV")
    @@ ("Software - Application" :> "IGV")
    @@ ("Software - Infrastructure" :> "IGV")
    @@ ("Software - System" :> "IGV")
    @@ ("Internet Content & Information" :> "FDN")
    @@ ("Information Technology Services" :> "IGV")
    @@ ("Broadline Retailers" :> "XRT")
    @@ ("Specialty Retail" :> "XRT")
    @@ ("Internet Retail" :> "XRT")
    @@ ("Discount Stores" :> "XRT")
    @@ ("Department Stores" :> "XRT")
    @@ ("Apparel Retail" :> "XRT")
    @@ ("Home Improvement Retail" :> "XRT")
    @@ ("Automotive" :> "CARZ")
    @@ ("Automobiles" :> "CARZ")
    @@ ("Auto Manufacturers" :> "CARZ")
    @@ ("Auto Parts" :> "CARZ")
    @@ ("Auto & Truck Dealerships" :> "CARZ")
    @@ ("Hotels & Motels" :> "PEJ")
    @@ ("Restaurants" :> "PEJ")
    @@ ("Entertainment" :> "PEJ")
    @@ ("Leisure" :> "PEJ")
    @@ ("Recreational Vehicles" :> "PEJ")
    @@ ("Banks - Regional" :> "KRE")
    @@ ("Banks - Diversified" :> "KBE")
    @@ ("Regional Banks" :> "KRE")
    @@ ("Money Center Banks" :> "KBE")
    @@ ("Capital Markets" :> "IAI")
    @@ ("Investment Brokerage" :> "IAI")
    @@ ("Insurance" :> "KIE")
    @@ ("Property & Casualty Insurance" :> "KIE")
    @@ ("Life Insurance" :> "KIE")
    @@ ("Biotechnology" :> "XBI")
    @@ ("Drug Manufacturers" :> "PJP")
    @@ ("Drug Manufacturers - Major" :> "PJP")
    @@ ("Drug Manufacturers - Specialty & Generic" :> "PJP")
    @@ ("Medical Devices" :> "IHI")
    @@ ("Medical Instruments & Supplies" :> "IHI")
    @@ ("Healthcare Plans" :> "IHF")
    @@ ("Health Care Plans" :> "IHF")
    @@ ("Oil & Gas" :> "XLE")
    @@ ("Oil & Gas E&P" :> "XOP")
    @@ ("Oil & Gas Drilling" :> "XOP")
    @@ ("Oil & Gas Refining & Marketing" :> "XLE")
    @@ ("Oil & Gas Pipelines" :> "XLE")
    @@ ("Aerospace & Defense" :> "ITA")
    @@ ("Aerospace/Defense" :> "ITA")
    @@ ("Industrial Machinery" :> "XLI")
    @@ ("Railroads" :> "IYT")
    @@ ("Airlines" :> "JETS")
    @@ ("Shipping" :> "SEA")
    @@ ("Gold" :> "GDX")
    @@ ("Steel" :> "SLX")
    @@ ("Chemicals" :> "IYM")
    @@ ("Chemicals - Major Diversified" :> "IYM")
    @@ ("Utilities" :> "XLU")
    @@ ("Electric Utilities" :> "XLU")
    @@ ("Gas Utilities" :> "XLU")
    @@ ("REITs" :> "VNQ")
    @@ ("Real Estate" :> "VNQ")
    @@ ("REIT - Residential" :> "VNQ")
    @@ ("REIT - Retail" :> "VNQ")
    @@ ("REIT - Office" :> "VNQ")

SECTOR_ETF_MAP ==
       ("Technology" :> "XLK")
    @@ ("Consumer Discretionary" :> "XLY")
    @@ ("Consumer Staples" :> "XLP")
    @@ ("Financials" :> "XLF")
    @@ ("Healthcare" :> "XLV")
    @@ ("Energy" :> "XLE")
    @@ ("Industrials" :> "XLI")
    @@ ("Materials" :> "XLB")
    @@ ("Utilities" :> "XLU")
    @@ ("Real Estate" :> "XLRE")
    @@ ("Communication Services" :> "XLC")

\* No instrument: null.
NoETF == ""

\* table[key] of one of the two tables, null for a key it has not.
TableEntry(tbl, key) == IF key \in DOMAIN tbl THEN tbl[key] ELSE NoETF

findETFForIndustry(industryName) ==
    LET lowered == ToLowerCase(industryName)
    IN  IF TableEntry(INDUSTRY_ETF_MAP, industryName) # NoETF
        THEN TableEntry(INDUSTRY_ETF_MAP, industryName)
        ELSE IF Includes(lowered, "semiconductor") THEN "SMH"
        ELSE IF Includes(lowered, "software") THEN "IGV"
        ELSE IF \/ Includes(lowered, "retail")
                \/ Includes(lowered, "retailer")
                \/ Includes(lowered, "discount store")
                \/ Includes(lowered, "internet retail") THEN "XRT"
        ELSE IF \/ Includes(lowered, "auto")
                \/ Includes(lowered, "automobile")
                \/ Includes(lowered, "auto manufacturer") THEN "CARZ"
        ELSE IF Includes(lowered, "bank")
        THEN (IF Includes(lowered, "regional") THEN "KRE" ELSE "KBE")
        ELSE IF \/ Includes(lowered, "capital market")
                \/ Includes(lowered, "investment")
                \/ Includes(lowered, "broker")
                \/ Includes(lowered, "securities") THEN "IAI"
        ELSE IF \/ Includes(lowered, "biotech")
                \/ Includes(lowered, "biotechnology") THEN "XBI"
        ELSE IF \/ Includes(lowered, "medical device")
                \/ Includes(lowered, "medical instrument") THEN "IHI"
        ELSE IF \/ Includes(lowered, "drug")
                \/ Includes(lowered, "pharmaceutical") THEN "PJP"
        ELSE IF Includes(lowered, "oil") \/ Includes(lowered, "gas")
        THEN (IF \/ Includes(lowered, "exploration")
                 \/ Includes(lowered, "e&p")
                 \/ Includes(lowered, "drilling") THEN "XOP" ELSE "XLE")
        ELSE IF \/ Includes(lowered, "aerospace")
                \/ Includes(lowered, "defense") THEN "ITA"
        ELSE NoETF

\* The resolution of the instrument with the sector table asked first.
ResolveProxySectorFirst(industryName, sectorName) ==
    IF sectorName # "" /\ TableEntry(SECTOR_ETF_MAP, sectorName) # NoETF
    THEN [etfSymbol |-> TableEntry(SECTOR_ETF_MAP, sectorName), usedSource |-> "sector"]
    ELSE [etfSymbol |-> findETFForIndustry(industryName),
          usedSource |-> IF findETFForIndustry(industryName) # NoETF
                         THEN "industry" ELSE ""]

\* calculateIndustryMA50, the resolution of the instrument: that of the
\* industry, or else that of the sector.
ResolveProxy(industryName, sectorName) ==
    LET ofIndustry == IF TableEntry(INDUSTRY_ETF_MAP, industryName) # NoETF
                      THEN TableEntry(INDUSTRY_ETF_MAP, industryName)
                      ELSE findETFForIndustry(industryName)
    IN  IF ofIndustry # NoETF
        THEN [etfSymbol |-> ofIndustry, usedSource |-> "industry"]
        ELSE IF sectorName # "" /\ TableEntry(SECTOR_ETF_MAP, sectorName) # NoETF
        THEN [etfSymbol |-> TableEntry(SECTOR_ETF_MAP, sectorName),
              usedSource |-> "sector"]
        ELSE [etfSymbol |-> NoETF, usedSource |-> ""]

\* The symbol of the k-th stock of the industry in the dataset; the first
\* one has none when the input says so.
StockSymbol(input, k) ==
    IF k = 1 /\ input.blank THEN "" ELSE "S" \o NaturalToString(k)

\* calculateIndustryMA50FromStocks without the limit of the sample.
StocksToCheckUnlimited(input) == [k \in 1..input.total |-> StockSymbol(input, k)]

\* calculateIndustryMA50FromStocks: the stocks of the industry in the
\* dataset, the first 20 of them when there are more.
StocksToCheck(input) ==
    [k \in 1..Min(input.total, SampleSize) |-> StockSymbol(input, k)]

\* The next stock from a place of the sample on that has a symbol, 0 when
\* there is none.
NextStockIndex(input, from) ==
    LET left == {k \in from..Len(StocksToCheck(input)) : StocksToCheck(input)[k] # ""}
    IN  IF left = {} THEN 0 ELSE CHOOSE k \in left : \A j \in left : k <= j

\* null, as a result of a computation.
NoResult == [source |-> "none"]

\* calculateIndustryMA50FromETF on prices of at least 50 closes.
ETFResult == [source |-> "ETF"]

\* calculateIndustryMA50FromStocks past its loop. Every history has a
\* price a trading day, so that 50 prices are 50 dates.
BasketResult(input, stockPrices) ==
    IF stockPrices = 0 THEN NoResult
    ELSE [source |-> "calculated", stocksUsed |-> stockPrices,
          totalStocks |-> input.total]

\* Whether Yahoo answers with at least 50 closes for a symbol.
HasPrices(symbol) ==
    IF symbol \in {StockSymbol([blank |-> FALSE], k) : k \in 1..(SampleSize + 1)}
    THEN \/ market.stocks = "all"
         \/ market.stocks = "odd" /\ NaturalOf(SubSeq(symbol, 2, Len(symbol))) % 2 = 1
    ELSE market.etf

\* fetchHistoricalPrices: the prices kept, or else what Yahoo answers;
\* TRUE for prices, FALSE for null.
fetchHistoricalPrices(symbol) == symbol \in pricesCache \/ HasPrices(symbol)

\* The industries a trend is asked of.
TrendIndustries ==
    {"", "Software", "Gas Utilities", "Bank Software", "Regional Bank Holdings",
     "Gas Drilling", "Tobacco"}

\* The sectors of their records.
TrendSectors == {"", "Energy", "Conglomerates"}

\* What calculateIndustryMA50 is given: the industry and the sector of the
\* first record, the number of stocks of the industry in the dataset, and
\* whether the first of them has no symbol. Every industry comes with
\* every sector; an industry with an instrument and one without come with
\* every number of stocks; one industry has more stocks than the sample.
TrendInputs ==
    {[industry |-> i, sector |-> s, total |-> n, blank |-> FALSE] :
        i \in TrendIndustries, s \in TrendSectors, n \in 0..1}
    \cup
    {[industry |-> i, sector |-> "Conglomerates", total |-> n, blank |-> b] :
        i \in {"Software", "Tobacco"}, n \in 1..MaxStocks, b \in BOOLEAN}
    \cup
    {[industry |-> "Software", sector |-> "Conglomerates",
      total |-> SampleSize + 1, blank |-> FALSE]}

Markets == [etf : BOOLEAN, stocks : {"all", "none", "odd"}]

\* A call of calculateIndustryMA50 that has just been made.
NewCall ==
    [pc |-> "start", etfSymbol |-> NoETF, usedSource |-> "", proxy |-> NoResult,
     trace |-> <<>>, i |-> 0, stockPrices |-> 0, result |-> NoResult,
     computed |-> FALSE, timedOut |-> FALSE]

Put(c, call) == IF c \in DOMAIN calls THEN [calls EXCEPT ![c] = call] ELSE Append(calls, call)

\* A call waits for fetchHistoricalPrices; a request goes to Yahoo unless
\* the prices are kept.
Await(c, call, symbol) ==
    /\ calls' = Put(c, call)
    /\ fetches' = IF symbol \in pricesCache THEN fetches
                  ELSE fetches \cup {c}
    /\ UNCHANGED industryMA50Cache

\* The end of calculateIndustryMA50: the result, or null, is put into the
\* cache and returned.
Settle(c, call, result) ==
    /\ calls' = Put(c, [call EXCEPT !.pc = "done", !.result = result])
    /\ industryMA50Cache' =
          MapSet(industryMA50Cache, trendInput.industry,
                 IF result = NoResult THEN JsNull ELSE result)
    /\ UNCHANGED fetches

\* calculateIndustryMA50FromStocks from a place of its sample on: the next
\* stock with a symbol is asked for, and past the last one the result is
\* made.
Basket(c, call, from) ==
    LET j == NextStockIndex(trendInput, from)
    IN  IF j = 0
        THEN Settle(c, call, BasketResult(trendInput, call.stockPrices))
        ELSE Await(c, [call EXCEPT !.pc = "basket", !.i = j],
                   StocksToCheck(trendInput)[j])

\* An input and a market are at hand; the caches are empty. Every stock of
\* the industry that is larger than the sample has prices.
InitTrend ==
    /\ AppOff
    /\ RankOff
    /\ Idle
    /\ StatsOff
    /\ CacheOff
    /\ BatchOff
    /\ CsvOff
    /\ FeedOff
    /\ trendInput \in TrendInputs
    /\ market \in IF trendInput.total > SampleSize
                   THEN {m \in Markets : m.stocks = "all"} ELSE Markets
    /\ industryMA50Cache = EmptyMap
    /\ pricesCache = {}
    /\ calls = <<>>
    /\ fetches = {}

\* calculateIndustryMA50 is called, by a caller that races it against a
\* timer; a later call is made once the first one has returned or has been
\* given up.  Up to its first wait: the cache check, the resolution of
\* the instrument, and the request for its prices or for those of the
\* first stock.
CallCalculateIndustryMA50 ==
    /\ Len(calls) < MaxCalls
    /\ Len(calls) > 0 => calls[Len(calls)].pc = "done" \/ calls[Len(calls)].timedOut
    /\ LET c      == Len(calls) + 1
           cached == MapGet(industryMA50Cache, trendInput.industry)
           proxy  == ResolveProxy(trendInput.industry, trendInput.sector)
           call   == [NewCall EXCEPT !.etfSymbol = proxy.etfSymbol,
                                     !.usedSource = proxy.usedSource,
                                     !.computed = TRUE]
       IN  /\ IF trendInput.industry = ""
              THEN /\ calls' = Put(c, [NewCall EXCEPT !.pc = "done"])
                   /\ UNCHANGED <<industryMA50Cache, fetches>>
              ELSE IF Truthy(cached)
              THEN /\ calls' = Put(c, [NewCall EXCEPT !.pc = "done", !.result = cached])
                   /\ UNCHANGED <<industryMA50Cache, fetches>>
              ELSE IF proxy.etfSymbol # NoETF
              THEN Await(c, [call EXCEPT !.pc = "proxy", !.trace = <<"proxy">>],
                         proxy.etfSymbol)
              ELSE Basket(c, [call EXCEPT !.trace = <<"basket">>], 1)
    /\ UNCHANGED <<trendInput, market, pricesCache, besideTrend>>

\* fetchHistoricalPrices answers calculateIndustryMA50FromETF: with prices
\* the result is made, put into the cache and returned; without, the
\* stocks of the industry are turned to.
ProxyAnswer(c) ==
    /\ c \in DOMAIN calls
    /\ calls[c].pc = "proxy"
    /\ LET call == calls[c]
       IN  IF fetchHistoricalPrices(call.etfSymbol)
           THEN /\ pricesCache' = pricesCache \cup {call.etfSymbol}
                /\ Settle(c, [call EXCEPT !.proxy = ETFResult], ETFResult)
           ELSE /\ pricesCache' = pricesCache
                /\ Basket(c, [call EXCEPT !.trace = Append(@, "basket")], 1)
    /\ UNCHANGED <<trendInput, market, besideTrend>>

\* fetchHistoricalPrices answers the loop of calculateIndustryMA50FromStocks
\* and its delay elapses: prices are kept, and the next stock is asked for.
BasketAnswer(c) ==
    /\ c \in DOMAIN calls
    /\ calls[c].pc = "basket"
    /\ LET call   == calls[c]
           symbol == StocksToCheck(trendInput)[call.i]
       IN  IF fetchHistoricalPrices(symbol)
           THEN /\ pricesCache' = pricesCache \cup {symbol}
                /\ Basket(c, [call EXCEPT !.stockPrices = @ + 1], call.i + 1)
           ELSE /\ pricesCache' = pricesCache
                /\ Basket(c, call, call.i + 1)
    /\ UNCHANGED <<trendInput, market, besideTrend>>

\* withTimeout: the timer of the caller fires before the call has
\* returned; the caller goes on without a result, the call goes on too.
Timeout(c) ==
    /\ c \in DOMAIN calls
    /\ calls[c].pc # "done"
    /\ ~calls[c].timedOut
    /\ calls' = [calls EXCEPT ![c].timedOut = TRUE]
    /\ UNCHANGED <<trendInput, market, industryMA50Cache, pricesCache, fetches,
                   besideTrend>>

NextTrend ==
    \/ CallCalculateIndustryMA50
    \/ \E c \in 1..MaxCalls : ProxyAnswer(c)
    \/ \E c \in 1..MaxCalls : BasketAnswer(c)
    \/ \E c \in 1..MaxCalls : Timeout(c)

TrendSpec == InitTrend /\ [][NextTrend]_vars

----------------------------------------------------------------------------
(* The enrichment and the ranking on their own: any dataset, any entries *)

\* The industries of the base dataset.
BaseIndustries == {"Software", "Hardware", "Semiconductors"}

\* The industries a provider names; the base dataset has the name too.
ProviderIndustries == {"Semiconductors"}

\* The base datasets: the first n symbols of the pool, each with a score
\* and an industry.
RankDatasets ==
    UNION {
        {[i \in 1..n |->
             RankRecord(SymbolPool[i], f[i][1],
                        [industry |-> f[i][2], sector |-> "Technology"])] :
            f \in [1..n -> {Num(10), Num(30)} \X BaseIndustries]} :
        n \in 1..Min(MaxRecords, Len(SymbolPool))}

\* The entries of a provider for the symbols of a dataset: for each symbol
\* none, or an industry.
ProviderEntries(dataset) ==
    UNION {
        [known -> {[industry |-> l, sector |-> "Technology", source |-> "Finviz"] :
                      l \in ProviderIndustries}] :
        known \in SUBSET {SymbolKey(dataset[i]) : i \in DOMAIN dataset}}

\* A dataset all of whose records are asked for, and the entries of a
\* provider for them.
InitRank ==
    /\ AppOff
    /\ Idle
    /\ StatsOff
    /\ CacheOff
    /\ BatchOff
    /\ CsvOff
    /\ FeedOff
    /\ TrendOff
    /\ \E dataset \in RankDatasets :
          \E entries \in ProviderEntries(dataset) :
              rankInput = [all |-> dataset, industrySectorData |-> entries]
    /\ ranked = Pending

\* fetchSctrForTickers from the enrichment of the records to their
\* relative strengths, no trend being known.
EnrichAndRank ==
    /\ rankInput # Pending
    /\ ranked = Pending
    /\ LET enriched == EnrichRecords(rankInput.all, rankInput.industrySectorData)
           stats    == StatsOf(rankInput.all, rankInput.all)
           map      == FinvizToStockChartsMap(enriched, rankInput.all, Len(enriched))
       IN  ranked' =
              [enrichedRecords |-> enriched,
               finvizToStockChartsMap |-> map,
               stats |-> stats,
               recordsWithRS |->
                   [i \in 1..Len(enriched) |->
                       RecordWithRS(enriched[i], stats, map, <<>>)]]
    /\ UNCHANGED <<rankInput, besideRank>>

NextRank == EnrichAndRank

RankSpec == InitRank /\ [][NextRank]_vars

----------------------------------------------------------------------------
(* The page: AppContent and its requests *)

\* Most ticker lists submitted to the page.
MaxSubmissions == 3

\* The ticker lists a user submits, by upload or by hand.
SubmittedLists == {<<>>, <<" ">>, <<"x">>, <<"Y">>, <<" x", "X">>}

\* nextTickers.map((t) => t.toUpperCase().trim()).filter(Boolean)
RECURSIVE CleanTickers(_)
CleanTickers(nextTickers) ==
    IF nextTickers = <<>> THEN <<>>
    ELSE LET t == Trim(ToUpperCase(Head(nextTickers)))
         IN  IF t # "" THEN <<t>> \o CleanTickers(Tail(nextTickers))
             ELSE CleanTickers(Tail(nextTickers))

\* How a request of the page is answered: with records, with data whose
\* records are no array, or with a failure.
Answers == {"records", "noArray", "failure"}

\* The records an answer carries for the tickers of its request.
RecordsOfAnswer(request, answer) ==
    IF answer = "records"
    THEN [i \in DOMAIN request.tickers |-> [symbol |-> request.tickers[i]]]
    ELSE <<>>

\* The page as it is mounted.
InitApp ==
    /\ Idle
    /\ StatsOff
    /\ CacheOff
    /\ BatchOff
    /\ CsvOff
    /\ FeedOff
    /\ TrendOff
    /\ RankOff
    /\ appState = [tickers |-> <<>>, records |-> <<>>, loading |-> FALSE, error |-> ""]
    /\ fetchRequests = {}
    /\ submitted = 0
    /\ answeredBy = 0

\* fetchSctrData up to its await: the tickers are set, the error and the
\* records cleared; with a ticker the page loads and the request is sent.
FetchSctrData(nextTickers) ==
    /\ appState # Pending
    /\ submitted < MaxSubmissions
    /\ submitted' = submitted + 1
    /\ answeredBy' = 0
    /\ LET unique == Unique(CleanTickers(nextTickers))
       IN  IF unique = <<>>
           THEN /\ appState' = [appState EXCEPT !.tickers = unique, !.error = "",
                                                !.records = <<>>]
                /\ UNCHANGED fetchRequests
           ELSE /\ appState' = [appState EXCEPT !.tickers = unique, !.error = "",
                                                !.records = <<>>, !.loading = TRUE]
                /\ fetchRequests' =
                      fetchRequests \cup {[id |-> submitted + 1, tickers |-> unique]}
    /\ UNCHANGED besideApp

\* fetchSctrData past its await: the records of the answer are shown, or
\* the message of the failure, and the page loads no more.
FetchSctrAnswered(request, answer) ==
    /\ request \in fetchRequests
    /\ fetchRequests' = fetchRequests \ {request}
    /\ answeredBy' = request.id
    /\ appState' =
          IF answer = "failure"
          THEN [appState EXCEPT !.error = "Failed to fetch SCTR", !.loading = FALSE]
          ELSE [appState EXCEPT !.records = RecordsOfAnswer(request, answer),
                                !.loading = FALSE]
    /\ UNCHANGED <<submitted, besideApp>>

NextApp ==
    \/ \E nextTickers \in SubmittedLists : FetchSctrData(nextTickers)
    \/ \E request \in fetchRequests, answer \in Answers :
          FetchSctrAnswered(request, answer)

AppSpec == InitApp /\ [][NextApp]_vars

----------------------------------------------------------------------------
(* What the claims speak of *)

\* fetchSctrForTickers has settled for a request with a non-empty ticker.
Settled ==
    /\ pc \in {"settled", "responded"}
    /\ fetched # NotFetched

\* ... and the base fetch gave the dataset.
SettledOnDataset == Settled /\ fetched.outcome = "ok"

Returned == Settled /\ outcome.kind = "return"

Dataset == fetched.result.value

DatasetSymbols == {ToUpperCase(Dataset[i].symbol) : i \in 1..Len(Dataset)}

RequestedTickers == Range(NormalizeTickers(tickers))

ReturnedRecords == outcome.value.records

\* The non-empty industries of the returned records.
ReturnedIndustries ==
    {Trim(ReturnedRecords[i].industry) : i \in 1..Len(ReturnedRecords)} \ {""}

----------------------------------------------------------------------------
(* C1 *)

\* C1: for a request with a non-empty ticker and a dataset whose fetch
\* succeeds, fetchSctrForTickers returns (it does not throw), and
\* missingTickers holds exactly the requested tickers, trimmed and in upper
\* case, that have no record in the dataset.
C1_MissingTickersReported ==
    SettledOnDataset =>
        /\ outcome.kind = "return"
        /\ Range(outcome.value.missingTickers) = RequestedTickers \ DatasetSymbols

----------------------------------------------------------------------------
(* C2 *)

\* C2: for every non-empty industry of the returned records whose trend
\* computation yields a result, every returned record of the industry
\* carries the result's aboveMA and percentAboveMA50, and stats.industryMA50
\* holds the result under the industry's name.
C2_TrendResultCarried ==
    Returned =>
        \A name \in ReturnedIndustries :
            TrendSettlement(name) = "data" =>
                /\ name \in DOMAIN outcome.value.stats.industryMA50
                /\ outcome.value.stats.industryMA50[name] = TrendData
                /\ \A i \in 1..Len(ReturnedRecords) :
                      Trim(ReturnedRecords[i].industry) = name =>
                          /\ ReturnedRecords[i].industryAboveMA50 = Num(TrendData.aboveMA)
                          /\ ReturnedRecords[i].industryPercentAboveMA50
                                = Num(TrendData.percentAboveMA50)

----------------------------------------------------------------------------
(* C3 *)

\* The score a record is ranked by.
HasScore(r) == IsNumber(r.SCTR)

SameScore(a, b) ==
    \/ ~HasScore(a) /\ ~HasScore(b)
    \/ HasScore(a) /\ HasScore(b) /\ Val(a.SCTR) = Val(b.SCTR)

\* a may stand before b: a's score is the higher one, a record without
\* score standing after every record with one, and with equal scores a's
\* symbol is not the greater one.
MayPrecede(a, b) ==
    /\ HasScore(b) => HasScore(a) /\ Val(a.SCTR) >= Val(b.SCTR)
    /\ SameScore(a, b) => localeCompare(a.symbol, b.symbol) <= 0

\* C3: the returned records are ordered by SCTR descending, records
\* without a numeric score after all others, equal scores by symbol
\* ascending.
C3_RecordsSorted ==
    Returned =>
        \A i, j \in 1..Len(ReturnedRecords) :
            i < j => MayPrecede(ReturnedRecords[i], ReturnedRecords[j])

\* Three records are returned in another order than the dataset's: two
\* with equal scores, ordered by symbol, before one without a score.
C3_Witness ==
    /\ Returned
    /\ Len(ReturnedRecords) = 3
    /\ ReturnedRecords[1].symbol = "A"
    /\ ReturnedRecords[1].SCTR = Num(30)
    /\ ReturnedRecords[2].symbol = "X"
    /\ ReturnedRecords[2].SCTR = Num(30)
    /\ ReturnedRecords[3].symbol = "Y"
    /\ ReturnedRecords[3].SCTR = Null

----------------------------------------------------------------------------
(* C5 *)

\* The ways the base fetch fails: a non-2xx response, an abort, a network
\* error, a body that is no JSON, a body that is no array.
FailedFetches == FetchOutcomes \ {"ok"}

----------------------------------------------------------------------------
(* C6 *)

\* The provider batch of the request threw, or returned no entry for the symbol.
NotProvided(symbol) ==
    \/ provided.kind = "throw"
    \/ provided.kind = "return" /\ symbol \notin DOMAIN provided.value

\* C6: when the provider batch throws or has no entry for a requested
\* ticker of the dataset, the ticker's record is still returned, with the
\* industry and sector of the base dataset and both sources "StockCharts".
C6_OverrideFailureContained ==
    (SettledOnDataset /\ industrySource \in {"finviz", "yahoo"}) =>
        \A i \in 1..Len(Dataset) :
            (/\ ToUpperCase(Dataset[i].symbol) \in RequestedTickers
             /\ NotProvided(ToUpperCase(Dataset[i].symbol))) =>
                /\ outcome.kind = "return"
                /\ \E j \in 1..Len(ReturnedRecords) :
                      /\ ReturnedRecords[j].symbol = Dataset[i].symbol
                      /\ ReturnedRecords[j].industry = Dataset[i].industry
                      /\ ReturnedRecords[j].sector = Dataset[i].sector
                      /\ ReturnedRecords[j].industrySource = "StockCharts"
                      /\ ReturnedRecords[j].sectorSource = "StockCharts"

----------------------------------------------------------------------------
(* C7 *)

TrendFails(name) == TrendSettlement(name) \in {"null", "throw", "timeout"}

\* C7: a trend computation that times out, throws or returns null leaves
\* the records of its industry with null trend fields and the industry out
\* of stats.industryMA50, and every other industry keeps the result of its
\* own computation.
C7_TrendFailureContained ==
    Returned =>
        \A name \in ReturnedIndustries :
            TrendFails(name) =>
                /\ name \notin DOMAIN outcome.value.stats.industryMA50
                /\ \A i \in 1..Len(ReturnedRecords) :
                      Trim(ReturnedRecords[i].industry) = name =>
                          /\ ReturnedRecords[i].industryAboveMA50 = Null
                          /\ ReturnedRecords[i].industryPercentAboveMA50 = Null
                /\ \A other \in ReturnedIndustries :
                      TrendSettlement(other) = "data" =>
                          /\ other \in DOMAIN outcome.value.stats.industryMA50
                          /\ outcome.value.stats.industryMA50[other] = TrendData

----------------------------------------------------------------------------
(* C8 *)

\* The dataset records with a numeric score in the group of a name.
DatasetMembers(key, name) ==
    {i \in 1..Len(Dataset) :
        IsNumber(Dataset[i].SCTR) /\ Trim(KeyOf(Dataset[i], key)) = name}

\* C8: the statistics returned, and used for the relative strengths, are
\* those of the whole fetched dataset, whatever tickers were requested.
C8_StatsOverWholeDataset ==
    Returned =>
        LET stats == outcome.value.stats
            whole == calculateIndustrySectorStats(Dataset)
        IN  /\ stats.industries = whole.industries
            /\ stats.sectors = whole.sectors
            /\ \A name \in DOMAIN stats.industries :
                  stats.industries[name].count
                    = Cardinality(DatasetMembers("industry", name))
            /\ \A name \in DOMAIN stats.sectors :
                  stats.sectors[name].count
                    = Cardinality(DatasetMembers("sector", name))
            /\ \A i \in 1..Len(ReturnedRecords) :
                  ReturnedRecords[i].sectorRS
                    = IF IsNumber(ReturnedRecords[i].SCTR)
                      THEN RelativeStrengthIn(whole.sectors,
                                              Trim(ReturnedRecords[i].sector),
                                              Val(ReturnedRecords[i].SCTR))
                      ELSE Null

\* One record is returned, and its sector's statistics count the three
\* records of the dataset.
C8_Witness ==
    /\ Returned
    /\ Len(ReturnedRecords) = 1
    /\ ReturnedRecords[1].sectorRS # Null
    /\ Trim(ReturnedRecords[1].sector) \in DOMAIN outcome.value.stats.sectors
    /\ outcome.value.stats.sectors[Trim(ReturnedRecords[1].sector)].count = 3

----------------------------------------------------------------------------
(* C4 *)

\* The count of a group in one side of the stats, 0 for a group not there.
GroupCount(groups, name) ==
    IF name \in DOMAIN groups THEN groups[name].count ELSE 0

\* The industry group a call of calculateRelativeStrength looks up.
StrengthIndustry ==
    IF strengths.copy = "shared"
    THEN StatsIndustry(strengths.record, strengths.remap)
    ELSE Trim(strengths.record.industry)

\* C4: calculateRelativeStrength yields no relative strength for a group
\* of count <= 1: industryRS is null when the record's industry group has
\* count <= 1, sectorRS is null when its sector group has count <= 1.
C4_NoStrengthForSmallGroup ==
    strengths # Pending =>
        /\ GroupCount(peerStats.value.industries, StrengthIndustry) <= 1
              => strengths.value.industryRS = Null
        /\ GroupCount(peerStats.value.sectors, Trim(strengths.record.sector)) <= 1
              => strengths.value.sectorRS = Null

----------------------------------------------------------------------------
(* C9 *)

\* The records of the sample with a score whose trimmed key is the name.
SampleMembers(key, name) ==
    {i \in 1..Len(sample) :
        IsNumber(sample[i].SCTR) /\ Trim(KeyOf(sample[i], key)) = name}

\* The sum of the scores of the members among the first n records.
RECURSIVE SumOfScores(_, _)
SumOfScores(members, n) ==
    IF n = 0 THEN 0
    ELSE SumOfScores(members, n - 1)
         + (IF n \in members THEN Val(sample[n].SCTR) ELSE 0)

\* The entry is the exact count, minimum, maximum and average of the members.
EntryIsExact(entry, members) ==
    /\ entry.count = Cardinality(members)
    /\ \E i \in members : entry.min = Val(sample[i].SCTR)
    /\ \A i \in members : entry.min <= Val(sample[i].SCTR)
    /\ \E i \in members : entry.max = Val(sample[i].SCTR)
    /\ \A i \in members : entry.max >= Val(sample[i].SCTR)
    /\ entry.avg.den > 0
    /\ entry.avg.num * entry.count
         = SumOfScores(members, Len(sample)) * entry.avg.den

\* C9: calculateIndustrySectorStats has an entry for exactly the non-empty
\* trimmed industry and sector names of the records with a score, and each
\* entry has the count, the minimum, the maximum and the average of the
\* scores of those records; records without a score are in no group.
C9_StatsEntriesExact ==
    peerStats # Pending =>
        LET stats == peerStats.value
        IN  /\ \A name \in DOMAIN stats.industries :
                  name # "" /\ SampleMembers("industry", name) # {}
            /\ \A name \in DOMAIN stats.sectors :
                  name # "" /\ SampleMembers("sector", name) # {}
            /\ \A i \in 1..Len(sample) :
                  IsNumber(sample[i].SCTR) =>
                      /\ Trim(sample[i].industry) # ""
                            => Trim(sample[i].industry) \in DOMAIN stats.industries
                      /\ Trim(sample[i].sector) # ""
                            => Trim(sample[i].sector) \in DOMAIN stats.sectors
            /\ \A name \in DOMAIN stats.industries :
                  EntryIsExact(stats.industries[name],
                               SampleMembers("industry", name))
            /\ \A name \in DOMAIN stats.sectors :
                  EntryIsExact(stats.sectors[name], SampleMembers("sector", name))

\* Stats of three records: one without a score, two of one industry (one
\* of them padded) with the scores 30 and 10 in that order.
C9_Witness ==
    /\ peerStats # Pending
    /\ Len(sample) = 3
    /\ ~IsNumber(sample[1].SCTR) /\ sample[1].industry = "Banks"
    /\ sample[2].SCTR = Num(30) /\ sample[2].industry = " Software "
    /\ sample[3].SCTR = Num(10) /\ sample[3].industry = "Software"
    /\ DOMAIN peerStats.value.industries = {"Software"}
    /\ peerStats.value.industries["Software"].count = 2

----------------------------------------------------------------------------
(* C10 *)

\* The k-th smallest score of the members.
KthScore(members, k) ==
    CHOOSE v \in {Val(sample[i].SCTR) : i \in members} :
        /\ Cardinality({i \in members : Val(sample[i].SCTR) < v}) < k
        /\ Cardinality({i \in members : Val(sample[i].SCTR) <= v}) >= k

\* The entry's median is the median of the members' scores: the middle
\* score of an odd number of scores, the mean of the two middle scores of
\* an even number.
MedianIsExact(entry, members) ==
    LET n == Cardinality(members)
    IN  2 * entry.median
          = KthScore(members, (n + 1) \div 2) + KthScore(members, (n \div 2) + 1)

\* C10: for every group, of odd or of even size, the median reported by
\* calculateIndustrySectorStats is the median of the group's scores.
C10_MedianReported ==
    peerStats # Pending =>
        /\ \A name \in DOMAIN peerStats.value.industries :
              MedianIsExact(peerStats.value.industries[name],
                            SampleMembers("industry", name))
        /\ \A name \in DOMAIN peerStats.value.sectors :
              MedianIsExact(peerStats.value.sectors[name],
                            SampleMembers("sector", name))

----------------------------------------------------------------------------
(* C11 *)

\* C11: a null result that was written to a cache is served from the
\* cache: a lookup of a key for which the Map holds a null written less
\* than the time to live ago performs no network call.
C11_NegativeResultsCached ==
    (/\ cacheKind \in {"finviz", "yahoo"}
     /\ lastOp = "lookup"
     /\ lookup.held = JsNull
     /\ lookup.age < TTL(cacheKind)) => ~lookup.network

----------------------------------------------------------------------------
(* C12 *)

\* C12: a lookup never returns from the cache a value whose set happened
\* the time to live or more ago, whatever sets, saves and loads happened
\* since.
C12_EntryValidWithinTTL ==
    (lastOp = "lookup" /\ ~lookup.network) => lookup.age < TTL(cacheKind)

----------------------------------------------------------------------------
(* C13 *)

\* The age of the set the file holds for a key.
AgeOf(key) == now - flushed[key].at

\* C13: after a load in a fresh process, a key whose value was set and
\* saved holds the identical value while the set is less than the time to
\* live ago, and is absent once the time to live has elapsed.
C13_CacheRoundTrip ==
    lastOp = "load" =>
        \A key \in DOMAIN flushed :
            /\ AgeOf(key) < TTL(cacheKind) =>
                  key \in DOMAIN cache /\ cache[key] = flushed[key].value
            /\ AgeOf(key) >= TTL(cacheKind) => key \notin DOMAIN cache

\* The first half of the round trip alone.
C13_LoadedWhileFresh ==
    lastOp = "load" =>
        \A key \in DOMAIN flushed :
            AgeOf(key) < TTL(cacheKind) =>
                key \in DOMAIN cache /\ cache[key] = flushed[key].value

----------------------------------------------------------------------------
(* C14 *)

\* C14: in a Finviz batch no request is issued for a later ticker once a
\* request of that batch has received a 429.
C14_BatchStopsAfter429 ==
    cacheKind = "finviz" => \A request \in inFlight : ~request.afterLimit

----------------------------------------------------------------------------
(* C15 *)

\* C15: at most one Finviz request is in flight, and none is in flight
\* while the delay after the previous one runs, whatever enrich requests
\* the process serves.
C15_FinvizRequestsSerial ==
    cacheKind = "finviz" =>
        /\ Cardinality(inFlight) <= 1
        /\ inFlight # {} => \A caller \in Callers : batches[caller].pc # "delay"

----------------------------------------------------------------------------
(* C16 *)

\* The requests of a caller's batch in flight.
InFlightOf(caller) == {request \in inFlight : request.caller = caller}

----------------------------------------------------------------------------
(* C17 *)

\* The symbols of a batch's tickers.
SymbolsOf(batch) == {SymbolOf(batch.tickers[i]) : i \in DOMAIN batch.tickers}

\* C17: in a Yahoo batch a failed lookup neither blocks nor cancels the
\* others: the batch waits only for lookups that are in flight, and the
\* map it returns holds every ticker of which a lookup succeeded.
C17_YahooFailuresContained ==
    cacheKind = "yahoo" =>
        \A caller \in Callers :
            LET batch == batches[caller]
            IN  /\ batch.pc \in {"idle", "awaiting", "delay", "done"}
                /\ batch.pc = "awaiting" =>
                      /\ batch.pending # {}
                      /\ \A i \in batch.pending :
                            \E request \in InFlightOf(caller) : request.index = i
                /\ batch.pc = "done" =>
                      \A symbol \in batch.succeeded :
                          /\ symbol \in DOMAIN batch.results
                          /\ Truthy(batch.results[symbol])

\* A batch has returned with one ticker's lookup failed after which
\* another ticker's succeeded.
C17_Witness ==
    /\ cacheKind = "yahoo"
    /\ \E caller \in Callers :
          LET batch == batches[caller]
          IN  /\ batch.pc = "done"
              /\ Len(batch.tickers) = 2
              /\ SymbolOf(batch.tickers[1]) \notin DOMAIN batch.results
              /\ SymbolOf(batch.tickers[2]) \in batch.succeeded
              /\ batch.held = EmptyMap

----------------------------------------------------------------------------
(* C18 *)

\* No request is in flight for a symbol the cache held when the lookup
\* was made.
C18_NoRequestForHeld == \A request \in inFlight : ~Truthy(request.held)

\* No request is made for a held symbol, and a batch returns what the
\* cache held for its tickers when it was called.
C18_CachedNotRequested ==
    /\ C18_NoRequestForHeld
    /\ \A caller \in Callers :
          LET batch == batches[caller]
          IN  batch.pc = "done" =>
                  \A symbol \in DOMAIN batch.held :
                      /\ symbol \in DOMAIN batch.results
                      /\ batch.results[symbol] = batch.held[symbol]

\* A lookup that succeeds leaves its result in the cache as it returns.
C18_SuccessWritten ==
    \A caller \in Callers :
        \A symbol \in batches'[caller].succeeded \ batches[caller].succeeded :
            MapGet(cache', symbol) = FetchedData(cacheKind)

----------------------------------------------------------------------------
(* C19 *)

\* What is left of a string before its first double quote.
BeforeFirstQuote(s) ==
    IF IndexOfChar(s, "\"") = 0 THEN s
    ELSE SubSeq(s, 1, IndexOfChar(s, "\"") - 1)

\* What follows the last colon of a string, the whole string without one.
AfterLastColon(s) == SubSeq(s, LastIndexOfChar(s, ":") + 1, Len(s))

\* The result is kept unless it is TICKER or SYMBOL or does not match the
\* pattern.
Accepted(result) ==
    IF result \in {"TICKER", "SYMBOL"} \/ ~MatchesTickerPattern(result)
    THEN "" ELSE result

\* The steps as stated: trim, strip the wrapping quotes, truncate at the
\* first quote, trim, keep what follows the last colon, uppercase.
StatedCandidate(v) ==
    Accepted(ToUpperCase(AfterLastColon(Trim(BeforeFirstQuote(
        StripWrappingQuotes(Trim(StringOf(v))))))))

\* The steps with what follows the colon trimmed as well.
AmendedCandidate(v) ==
    Accepted(ToUpperCase(Trim(AfterLastColon(Trim(BeforeFirstQuote(
        StripWrappingQuotes(Trim(StringOf(v)))))))))

\* The value returned for the cell.
Candidate == tickerCandidate.returned

\* C19 as stated: normalizeTickerCandidate returns what the six steps in
\* their order give, emptied when it is TICKER or SYMBOL or does not match
\* the pattern.
C19_StatedSteps ==
    tickerCandidate # Pending => Candidate = StatedCandidate(cell)

\* C19: normalizeTickerCandidate returns what the steps give when what
\* follows the last colon is trimmed too; every non-empty value returned
\* matches the pattern and is neither TICKER nor SYMBOL; and the three
\* examples come out as stated.
C19_CandidateNormalized ==
    tickerCandidate # Pending =>
        /\ Candidate = AmendedCandidate(cell)
        /\ Candidate # "" =>
              /\ MatchesTickerPattern(Candidate)
              /\ Candidate \notin {"TICKER", "SYMBOL"}
        /\ cell = StringCell("NASDAQ:AAPL ") => Candidate = "AAPL"
        /\ cell = StringCell("TICKER") => Candidate = ""
        /\ cell = StringCell("AAPL\"X") => Candidate = "AAPL"

\* A ticker is returned for a cell with a blank between the colon and the
\* ticker.
C19_Witness ==
    /\ cell = StringCell("NASDAQ: AAPL")
    /\ tickerCandidate = [returned |-> "AAPL"]

----------------------------------------------------------------------------
(* C20 *)

\* The preferred vocabulary, in its order.
C20_Vocabulary == <<"ticker", "symbol", "tick", "sym", "symbols", "tickers">>

\* The least number of a non-empty set of numbers.
C20_Least(numbers) == CHOOSE n \in numbers : \A m \in numbers : n <= m

\* C20: when a column name equals or contains a word of the vocabulary, the
\* index returned is that of the first column that matches the earliest
\* word any column matches, whatever the cells hold.
C20_PreferredColumnFirst ==
    tickerColumnIndex # Pending =>
        LET names == [i \in DOMAIN table.columns |-> ToLowerCase(table.columns[i])]
            matching == [k \in DOMAIN C20_Vocabulary |->
                            {i \in DOMAIN names : Includes(names[i], C20_Vocabulary[k])}]
            matched == {k \in DOMAIN C20_Vocabulary : matching[k] # {}}
        IN  matched # {} =>
                tickerColumnIndex.returned + 1 = C20_Least(matching[C20_Least(matched)])

\* A later column is returned because it matches an earlier word than the
\* first column does, in a table whose cells favour the first column.
C20_Witness ==
    /\ tickerColumnIndex = [returned |-> 1]
    /\ table # Pending
    /\ Len(table.columns) >= 2
    /\ table.columns[1] = "sym"
    /\ table.columns[2] = " SYMBOL "
    /\ Len(table.rows) = 1
    /\ table.rows[1]["sym"] = StringCell("AAPL")
    /\ table.rows[1][" SYMBOL "] = StringCell("n/a")

----------------------------------------------------------------------------
(* C27 *)

\* The count of a column of the table: the rows among the first 200 whose
\* cell under it normalizes to a ticker.
C27_Count(i) ==
    Cardinality({r \in DOMAIN table.rows :
                    /\ r <= 200
                    /\ normalizeTickerCandidate(table.rows[r][table.columns[i]]) # ""})

\* No column name equals or contains a word of the vocabulary.
C27_NoPreferredColumn ==
    \A i \in DOMAIN table.columns, k \in DOMAIN C20_Vocabulary :
        ~Includes(ToLowerCase(table.columns[i]), C20_Vocabulary[k])

\* C27: without a column name of the vocabulary the index returned is that
\* of the column with the highest count over the first 200 rows, the
\* lowest one among equals; without columns it is 0.
C27_BestScoringColumn ==
    (tickerColumnIndex # Pending /\ C27_NoPreferredColumn) =>
        LET returned == tickerColumnIndex.returned + 1
            counts   == [i \in DOMAIN table.columns |-> C27_Count(i)]
        IN  IF table.columns = <<>> THEN returned = 1
            ELSE /\ returned \in DOMAIN counts
                 /\ \A i \in DOMAIN counts :
                       /\ counts[i] <= counts[returned]
                       /\ i < returned => counts[i] < counts[returned]

\* The first column is returned for a table of 202 rows whose rows behind
\* the 200th alone hold tickers, in the second column.
C27_Witness ==
    /\ tickerColumnIndex = [returned |-> 0]
    /\ table \in LongTables
    /\ table.rows[1]["Name"] = StringCell("n/a")


\* ---------------------------------------------------------------------
\* C21
\* ---------------------------------------------------------------------

\* The positional names of a text without header.
C21_PositionalColumns == [i \in 1..Width(csvText.lines) |-> PositionalName(i - 1)]

\* The candidates of a column over all lines of the text, in their order.
RECURSIVE C21_CandidatesOfLines(_, _)
C21_CandidatesOfLines(lines, i) ==
    IF lines = <<>> THEN <<>>
    ELSE LET t == IF i \in DOMAIN Head(lines)
                  THEN normalizeTickerCandidate(StringCell(Head(lines)[i]))
                  ELSE ""
         IN  IF t # "" THEN <<t>> \o C21_CandidatesOfLines(Tail(lines), i)
             ELSE C21_CandidatesOfLines(Tail(lines), i)

\* C21: for a text without a header row parseCsvForTickers names the
\* columns col_0, col_1, ... and detects the column and extracts its
\* tickers over all rows of the text: the returned index is a column with
\* the most candidates, and the tickers are its candidates on every line.
C21_HeaderlessPositional ==
    (parsed # Pending /\ ~csvText.header /\ csvText.lines # <<>>) =>
        LET lines  == csvText.lines
            index  == parsed.tickerColumnIndex + 1
            counts == [i \in 1..Width(lines) |-> Len(C21_CandidatesOfLines(lines, i))]
        IN  /\ parsed.columns = C21_PositionalColumns
            /\ index \in DOMAIN counts
            /\ \A i \in DOMAIN counts : counts[i] <= counts[index]
            /\ parsed.tickerColumnName = PositionalName(index - 1)
            /\ parsed.tickers = Unique(C21_CandidatesOfLines(lines, index))

----------------------------------------------------------------------------
(* C22 *)

\* The items of the feed whose symbol is not empty.
C22_ItemsWithSymbol ==
    {i \in DOMAIN raw.items : toString(Field(raw.items[i], "symbol")) # ""}

\* A numeric field of a record is null or a finite number.
C22_NullOrFinite(v) == v = JsNull \/ IsFinite(v)

\* The numeric fields of every record are null or finite, never NaN, and
\* no item without symbol makes a record.
C22_NumbersAndSymbols ==
    out # Pending =>
        /\ \A r \in DOMAIN out.returned :
              /\ out.returned[r].symbol # ""
              /\ \A field \in NumericFields :
                    C22_NullOrFinite(out.returned[r][field])
        /\ Len(out.returned) <= Cardinality(C22_ItemsWithSymbol)

\* C22: every record normalizeRecords returns has a symbol that is not
\* empty and in upper case, each of its numeric fields (SCTR, delta, close,
\* marketCap, vol) is a finite number or null, never NaN, and an item of
\* the feed without a symbol makes no record.
C22_RecordsWellFormed ==
    /\ C22_NumbersAndSymbols
    /\ out # Pending =>
          \A r \in DOMAIN out.returned :
              out.returned[r].symbol = ToUpperCase(out.returned[r].symbol)

----------------------------------------------------------------------------
(* C23 *)

----------------------------------------------------------------------------
(* C24 *)

\* The keyword rules of findETFForIndustry in their order: the words one of
\* which the name has to hold, the instrument, and the words that change it.
C24_KeywordRules ==
    <<[any |-> {"semiconductor"}, etf |-> "SMH", narrow |-> {}, narrowed |-> "SMH"],
      [any |-> {"software"}, etf |-> "IGV", narrow |-> {}, narrowed |-> "IGV"],
      [any |-> {"retail", "retailer", "discount store", "internet retail"},
       etf |-> "XRT", narrow |-> {}, narrowed |-> "XRT"],
      [any |-> {"auto", "automobile", "auto manufacturer"},
       etf |-> "CARZ", narrow |-> {}, narrowed |-> "CARZ"],
      [any |-> {"bank"}, etf |-> "KBE", narrow |-> {"regional"}, narrowed |-> "KRE"],
      [any |-> {"capital market", "investment", "broker", "securities"},
       etf |-> "IAI", narrow |-> {}, narrowed |-> "IAI"],
      [any |-> {"biotech", "biotechnology"}, etf |-> "XBI", narrow |-> {},
       narrowed |-> "XBI"],
      [any |-> {"medical device", "medical instrument"}, etf |-> "IHI",
       narrow |-> {}, narrowed |-> "IHI"],
      [any |-> {"drug", "pharmaceutical"}, etf |-> "PJP", narrow |-> {},
       narrowed |-> "PJP"],
      [any |-> {"oil", "gas"}, etf |-> "XLE",
       narrow |-> {"exploration", "e&p", "drilling"}, narrowed |-> "XOP"],
      [any |-> {"aerospace", "defense"}, etf |-> "ITA", narrow |-> {},
       narrowed |-> "ITA"]>>

\* The rules the lower-cased name of an industry satisfies.
C24_Satisfied(industryName) ==
    {k \in DOMAIN C24_KeywordRules :
        \E w \in C24_KeywordRules[k].any : Includes(ToLowerCase(industryName), w)}

\* The instrument the claim names for an industry and a sector.
C24_Expected(industryName, sectorName) ==
    LET satisfied == C24_Satisfied(industryName)
        first     == CHOOSE k \in satisfied : \A j \in satisfied : k <= j
        rule      == C24_KeywordRules[first]
    IN  IF industryName \in DOMAIN INDUSTRY_ETF_MAP
        THEN [etfSymbol |-> INDUSTRY_ETF_MAP[industryName], usedSource |-> "industry"]
        ELSE IF satisfied # {}
        THEN [etfSymbol |-> IF \E w \in rule.narrow :
                                  Includes(ToLowerCase(industryName), w)
                            THEN rule.narrowed ELSE rule.etf,
              usedSource |-> "industry"]
        ELSE IF sectorName \in DOMAIN SECTOR_ETF_MAP
        THEN [etfSymbol |-> SECTOR_ETF_MAP[sectorName], usedSource |-> "sector"]
        ELSE [etfSymbol |-> NoETF, usedSource |-> ""]

\* The instruments the claim names for the industries and sectors asked of.
C24_ExpectedOf ==
    [i \in TrendIndustries, s \in TrendSectors |-> C24_Expected(i, s)]

\* C24: calculateIndustryMA50 resolves the instrument in strict order: the
\* entry of the industry table for the name; or else the instrument of the
\* first keyword rule of findETFForIndustry the lower-cased name satisfies;
\* or else the entry of the sector table for the sector of the record; or
\* else none. The sector table is asked only when the industry gave none.
C24_ProxyPriority ==
    \A c \in DOMAIN calls :
        calls[c].computed =>
            LET expected == C24_ExpectedOf[trendInput.industry, trendInput.sector]
            IN  /\ calls[c].etfSymbol = expected.etfSymbol
                /\ calls[c].usedSource = expected.usedSource

\* An industry that is no key of the table and satisfies two rules got the
\* instrument of the first of them, its sector being in the sector table.
C24_Witness ==
    /\ calls # <<>>
    /\ calls[1].computed
    /\ trendInput.industry = "Bank Software"
    /\ trendInput.sector = "Energy"
    /\ Cardinality(C24_Satisfied(trendInput.industry)) = 2
    /\ calls[1].etfSymbol = "IGV"

----------------------------------------------------------------------------
(* C25 *)

\* C25: in calculateIndustryMA50 the basket of stocks is tried exactly when
\* no instrument resolved or the computation on the instrument gave no
\* result, and always after that attempt; a result has the source "ETF"
\* exactly when the computation on the instrument succeeded and the source
\* "calculated" otherwise, and a result of the basket has
\* 1 <= stocksUsed <= min(20, totalStocks).
C25_BasketAfterProxy ==
    \A c \in DOMAIN calls :
        LET call   == calls[c]
            basket == \E k \in DOMAIN call.trace : call.trace[k] = "basket"
        IN  call.computed =>
                /\ call.trace \in {<<"proxy">>, <<"basket">>, <<"proxy", "basket">>}
                /\ (call.trace[1] = "proxy") <=> (call.etfSymbol # NoETF)
                /\ call.pc \in {"basket", "done"} =>
                      (basket <=> (call.etfSymbol = NoETF \/ call.proxy = NoResult))
                /\ (call.pc = "done" /\ call.result # NoResult) =>
                      /\ (call.result.source = "ETF") <=> (call.proxy # NoResult)
                      /\ call.proxy = NoResult =>
                            /\ call.result.source = "calculated"
                            /\ 1 <= call.result.stocksUsed
                            /\ call.result.stocksUsed <= Min(20, call.result.totalStocks)

\* The instrument of an industry of 21 stocks had no prices, and the basket
\* made a result of the first 20 of them.
C25_Witness ==
    /\ calls # <<>>
    /\ calls[1].pc = "done"
    /\ calls[1].trace = <<"proxy", "basket">>
    /\ calls[1].result = [source |-> "calculated", stocksUsed |-> 20, totalStocks |-> 21]

----------------------------------------------------------------------------
(* C29 *)

\* C29: in every enriched record the provenance tags name the provider
\* whose value the record carries: industrySource is the name of the
\* external provider only when the industry of the record came from that
\* provider, sectorSource likewise for the sector, and a field kept from
\* the base dataset is tagged "StockCharts".
C29_ProvenanceNamesProvider ==
    pc = "ma50" =>
        LET data == IF provided = Pending THEN <<>> ELSE IndustrySectorData(provided)
        IN  \A i \in DOMAIN enrichedRecords :
                LET r   == enrichedRecords[i]
                    sym == SymbolKey(r)
                IN  /\ r.industrySource =
                          IF sym \in DOMAIN data /\ data[sym].industry # ""
                          THEN data[sym].source ELSE "StockCharts"
                    /\ r.sectorSource =
                          IF sym \in DOMAIN data /\ data[sym].sector # ""
                          THEN data[sym].source ELSE "StockCharts"

----------------------------------------------------------------------------
(* C26 *)

\* The industry of the base dataset of the i-th enriched record.
C26_BaseIndustry(i) ==
    LET symbol == SymbolKey(ranked.enrichedRecords[i])
        first  == CHOOSE k \in DOMAIN rankInput.all :
                      /\ SymbolKey(rankInput.all[k]) = symbol
                      /\ \A j \in 1..(k - 1) : SymbolKey(rankInput.all[j]) # symbol
    IN  Trim(rankInput.all[first].industry)

\* The enriched records that carry a label beside another industry of the
\* base dataset.
C26_Pairs(label) ==
    {i \in DOMAIN ranked.enrichedRecords :
        /\ Trim(ranked.enrichedRecords[i].industry) = label
        /\ C26_BaseIndustry(i) # ""
        /\ C26_BaseIndustry(i) # label}

\* C26: the remapping fetchSctrForTickers builds remembers what it saw
\* first: a label is sent to the industry the base dataset has for the
\* first enriched record that carries the label beside another, non-empty
\* base industry; later records of the label do not change it; and
\* calculateRelativeStrength applies the remapping before it looks up the
\* group of the industry.
C26_FirstSeenRemapping ==
    ranked # Pending =>
        LET enriched == ranked.enrichedRecords
            map      == ranked.finvizToStockChartsMap
            labels   == {Trim(enriched[i].industry) : i \in DOMAIN enriched}
        IN  /\ DOMAIN map \subseteq labels
            /\ \A label \in labels :
                  LET pairs == C26_Pairs(label)
                  IN  IF pairs = {} THEN label \notin DOMAIN map
                      ELSE /\ label \in DOMAIN map
                           /\ map[label] =
                                 C26_BaseIndustry(CHOOSE i \in pairs :
                                                      \A j \in pairs : i <= j)
            /\ \A i \in DOMAIN enriched :
                  LET label == Trim(enriched[i].industry)
                  IN  ranked.recordsWithRS[i].industryRS =
                          RelativeStrengthIn(ranked.stats.industries,
                                             IF label \in DOMAIN map
                                             THEN map[label] ELSE label,
                                             Val(enriched[i].SCTR))

\* Two records carry the same label of the provider beside two different
\* industries of the base dataset, and the label is sent to the first.
C26_Witness ==
    /\ ranked # Pending
    /\ \E i, j \in DOMAIN ranked.enrichedRecords :
          /\ i < j
          /\ {i, j} \subseteq C26_Pairs("Semiconductors")
          /\ C26_BaseIndustry(i) # C26_BaseIndustry(j)
          /\ ranked.finvizToStockChartsMap["Semiconductors"] = C26_BaseIndustry(i)

----------------------------------------------------------------------------
(* C28 *)

\* C28: a record whose industry no provider overrode (industrySource
\* "StockCharts") has its industry strength computed against the
\* statistics of its own industry of the base dataset, whatever other
\* records the request holds.
C28_OwnGroupUnlessOverridden ==
    ranked # Pending =>
        \A i \in DOMAIN ranked.enrichedRecords :
            ranked.enrichedRecords[i].industrySource = "StockCharts" =>
                ranked.recordsWithRS[i].industryRS =
                    RelativeStrengthIn(ranked.stats.industries,
                                       Trim(rankInput.all[i].industry),
                                       Val(rankInput.all[i].SCTR))

----------------------------------------------------------------------------
(* C30 *)

\* C30: after any interleaving of requests and answers the records, the
\* error and the loading flag of AppContent belong to the ticker list
\* submitted last: the answer to an earlier request that arrives after a
\* later list was submitted never replaces what is shown, and the page
\* stops loading only when no request is on its way.
C30_LatestSubmissionShown ==
    appState # Pending =>
        /\ answeredBy # 0 => answeredBy = submitted
        /\ ~appState.loading => fetchRequests = {}

====
